---------------------------- MODULE Spec2Model ----------------------------
(***************************************************************************)
(* Governance server: webhook intake, the durable sync workflow with the   *)
(* D1 graph store and the R2 content mirror, and the KV cache refresh.     *)
(*                                                                         *)
(* Strings are modelled as sequences of tokens.  A token is either a word  *)
(* (a maximal run of [A-Za-z0-9_] characters, kept atomic), a run of       *)
(* blanks (" "), or a punctuation mark; the suffix ".md" and the           *)
(* frontmatter fence "---" are single tokens.  Two strings are equal iff   *)
(* their token sequences are equal.                                        *)
(***************************************************************************)
EXTENDS Integers, Sequences, FiniteSets, Bags, TLC

(***************************************************************************)
(* Token-level string helpers                                              *)
(***************************************************************************)
Punct == {"/", "-", ".", ":", " ", ",", "[", "]", "{", "}", "'", "|", ">", ".md", "---", "="}

\* \w+ on one token: every non-punctuation token is a run of word characters
IsWord(t) == t \notin Punct

\* tokens whose text contains the character '_'
HasUnderscore(t) == t \in {"_", "_drafts", "authorized_by", "effective_from", "effective_to", "enacted_by"}

RECURSIVE TrimLeft(_)
TrimLeft(s) == IF s # <<>> /\ Head(s) = " " THEN TrimLeft(Tail(s)) ELSE s

RECURSIVE TrimRight(_)
TrimRight(s) ==
    IF s # <<>> /\ s[Len(s)] = " " THEN TrimRight(SubSeq(s, 1, Len(s) - 1)) ELSE s

\* String.prototype.trim
Trim(s) == TrimRight(TrimLeft(s))

\* value.replace(/^['"]|['"]$/g, '')
StripQuotes(s) ==
    LET a == IF s # <<>> /\ Head(s) = "'" THEN Tail(s) ELSE s
    IN  IF a # <<>> /\ a[Len(a)] = "'" THEN SubSeq(a, 1, Len(a) - 1) ELSE a

\* String.prototype.split on a one-token separator
RECURSIVE SplitOn(_, _)
SplitOn(s, sep) ==
    IF \E i \in 1..Len(s) : s[i] = sep
    THEN LET i == CHOOSE k \in 1..Len(s) : s[k] = sep /\ \A j \in 1..(k - 1) : s[j] # sep
         IN  <<SubSeq(s, 1, i - 1)>> \o SplitOn(SubSeq(s, i + 1, Len(s)), sep)
    ELSE <<s>>

\* Array.prototype.map / filter / flatMap on sequences
RECURSIVE MapSeq(_, _)
MapSeq(F(_), s) == IF s = <<>> THEN <<>> ELSE <<F(Head(s))>> \o MapSeq(F, Tail(s))

RECURSIVE FilterSeq(_, _)
FilterSeq(P(_), s) ==
    IF s = <<>> THEN <<>>
    ELSE (IF P(Head(s)) THEN <<Head(s)>> ELSE <<>>) \o FilterSeq(P, Tail(s))

RECURSIVE FlatMapSeq(_, _)
FlatMapSeq(F(_), s) == IF s = <<>> THEN <<>> ELSE F(Head(s)) \o FlatMapSeq(F, Tail(s))

Range(s) == {s[i] : i \in 1..Len(s)}

(***************************************************************************)
(* Paths and slugs                                                         *)
(***************************************************************************)
\* path.replace(/^(agreements|policies|proposals)\//, '')
StripPrefix(path, dirs) ==
    IF Len(path) >= 2 /\ path[1] \in dirs /\ path[2] = "/"
    THEN SubSeq(path, 3, Len(path)) ELSE path

\* .replace(/\.md$/, '')
StripMd(s) == IF s # <<>> /\ s[Len(s)] = ".md" THEN SubSeq(s, 1, Len(s) - 1) ELSE s

\* .replace(/\//g, '-')
SlashToDash(s) == [i \in 1..Len(s) |-> IF s[i] = "/" THEN "-" ELSE s[i]]

\* pathToSlug of the parser
ParserPathToSlug(path) ==
    SlashToDash(StripMd(StripPrefix(path, {"agreements", "policies", "proposals"})))

\* pathToSlug of the workflow (used by deleteDocument)
WorkflowPathToSlug(path) ==
    SlashToDash(StripMd(StripPrefix(path, {"agreements", "policies"})))

\* w.charAt(0).toUpperCase() + w.slice(1), on the words the model uses
UpperFirst(w) ==
    CASE w = "a" -> "A" [] w = "b" -> "B" [] w = "c" -> "C" [] w = "d" -> "D"
      [] w = "docs" -> "Docs" [] w = "proposals" -> "Proposals" [] OTHER -> w

\* titleFromPath: split on '-', capitalise, join with ' '
TitleFromPath(path) ==
    LET slug == ParserPathToSlug(path)
    IN  [i \in 1..Len(slug) |-> IF slug[i] = "-" THEN " " ELSE UpperFirst(slug[i])]

\* path.endsWith('.md')
EndsWithMd(path) == path # <<>> /\ path[Len(path)] = ".md"


(***************************************************************************)
(* Frontmatter parser.  A document's content is a sequence of lines, each  *)
(* a token sequence.  A parsed YAML value is [t |-> "str", v |-> tokens]   *)
(* or [t |-> "list", v |-> <<tokens, ...>>].                               *)
(***************************************************************************)
Str(v) == [t |-> "str", v |-> v]
List(v) == [t |-> "list", v |-> v]

\* JavaScript truthiness of a parsed value: '' is falsy, arrays are truthy
Truthy(x) == x.t = "list" \/ x.v # <<>>

\* line.match(/^\s+-\s+/)
IsItemLine(line) == Len(line) >= 3 /\ line[1] = " " /\ line[2] = "-" /\ line[3] = " "

\* line.replace(/^\s+-\s+/, '').trim()
ItemText(line) == Trim(SubSeq(line, 4, Len(line)))

\* length of the key matched by /^(\w[\w_-]*):/, 0 when the line does not match
KeyLen(line) ==
    LET run == {n \in 1..Len(line) : \A i \in 1..n : IsWord(line[i]) \/ line[i] = "-"}
        n == IF run = {} THEN 0 ELSE CHOOSE m \in run : \A k \in run : k <= m
    IN  IF n > 0 /\ IsWord(line[1]) /\ n < Len(line) /\ line[n + 1] = ":" THEN n ELSE 0

\* one iteration of the loop of parseYamlSimple; the open list is result[currentKey]
\* itself (currentList aliases it), so listOpen records only currentList !== null
YamlStep(st, line) ==
    IF st.thrown THEN st
    ELSE IF IsItemLine(line) THEN
        IF st.listOpen THEN
            [st EXCEPT !.result[st.key].v = Append(@, ItemText(line))]
        ELSE IF st.key # <<>> THEN
            IF ~Truthy(st.result[st.key]) THEN
                [st EXCEPT !.result[st.key] = List(<<ItemText(line)>>)]
            ELSE IF st.result[st.key].t = "list" THEN
                [st EXCEPT !.result[st.key].v = Append(@, ItemText(line))]
            ELSE [st EXCEPT !.thrown = TRUE]   \* 'string'.push is not a function
        ELSE st
    ELSE IF KeyLen(line) > 0 THEN
        LET key == SubSeq(line, 1, KeyLen(line))
            value == Trim(SubSeq(line, KeyLen(line) + 2, Len(line)))
            put(v) == [k \in DOMAIN st.result \cup {key} |->
                          IF k = key THEN v ELSE st.result[k]]
        IN  IF value = <<>> \/ value = <<"|">> \/ value = <<">">> THEN
                [st EXCEPT !.key = key, !.listOpen = TRUE, !.result = put(List(<<>>))]
            ELSE IF Head(value) = "[" /\ value[Len(value)] = "]" THEN
                LET item(x) == StripQuotes(Trim(x))
                IN  [st EXCEPT !.key = key, !.listOpen = FALSE,
                               !.result = put(List(MapSeq(item,
                                   SplitOn(SubSeq(value, 2, Len(value) - 1), ","))))]
            ELSE [st EXCEPT !.key = key, !.listOpen = FALSE,
                            !.result = put(Str(StripQuotes(value)))]
    ELSE st

RECURSIVE YamlFold(_, _)
YamlFold(st, lines) ==
    IF lines = <<>> THEN st ELSE YamlFold(YamlStep(st, Head(lines)), Tail(lines))

\* parseYamlSimple: [thrown, result]
ParseYamlSimple(lines) ==
    LET emptyObj == [k \in {} |-> Str(<<>>)]
    IN  YamlFold([result |-> emptyObj, key |-> <<>>, listOpen |-> FALSE,
                  thrown |-> FALSE], lines)

\* content.match(/^---\r?\n([\s\S]*?)\r?\n---/): index of the closing fence line, 0 if none
FenceEnd(content) ==
    LET ends == {j \in 3..Len(content) : content[j] # <<>> /\ Head(content[j]) = "---"}
    IN  IF Len(content) >= 1 /\ content[1] = <<"---">> /\ ends # {}
        THEN CHOOSE j \in ends : \A k \in ends : j <= k ELSE 0

\* extractFrontmatter: [kind |-> "null"] (no match), [kind |-> "throw"], or
\* [kind |-> "obj", obj |-> the parsed object]
ExtractFrontmatter(content) ==
    IF FenceEnd(content) = 0 THEN [kind |-> "null"]
    ELSE LET st == ParseYamlSimple(SubSeq(content, 2, FenceEnd(content) - 1))
         IN  IF st.thrown THEN [kind |-> "throw"] ELSE [kind |-> "obj", obj |-> st.result]

Has(fm, k) == <<k>> \in DOMAIN fm
Get(fm, k) == fm[<<k>>]

\* fm.a ?? fm.b ?? dflt
Coalesce2(fm, a, b, dflt) ==
    IF Has(fm, a) THEN Get(fm, a) ELSE IF Has(fm, b) THEN Get(fm, b) ELSE dflt

NoStr == <<"~undefined">>
BadBind == <<"~array">>

\* a value handed to a SQL text parameter: strings as they are, undefined as NoStr
\* (bound as NULL), arrays as BadBind (D1 refuses to bind them)
Scalar(x) == IF x.t = "str" THEN x.v ELSE BadBind

IsStrOf(x, w) == x.t = "str" /\ x.v = <<w>>

NormaliseType(fm) ==
    IF ~Has(fm, "type") THEN "other"
    ELSE IF IsStrOf(Get(fm, "type"), "agreement") THEN "agreement"
    ELSE IF IsStrOf(Get(fm, "type"), "policy") THEN "policy"
    ELSE IF IsStrOf(Get(fm, "type"), "proposal") THEN "proposal"
    ELSE "other"

NormaliseStatus(fm) ==
    IF ~Has(fm, "status") THEN "draft"
    ELSE IF IsStrOf(Get(fm, "status"), "active") THEN "active"
    ELSE IF IsStrOf(Get(fm, "status"), "draft") THEN "draft"
    ELSE IF IsStrOf(Get(fm, "status"), "superseded") THEN "superseded"
    ELSE IF IsStrOf(Get(fm, "status"), "retired") THEN "retired"
    ELSE "draft"

NonEmpty(s) == s # <<>>

NormaliseDomains(raw) ==
    IF ~Truthy(raw) THEN <<>>
    ELSE IF raw.t = "str" THEN <<raw.v>>
    ELSE FilterSeq(NonEmpty, raw.v)

\* one item of normaliseRelationships: item.match(/^(\w+):\s*(.+)/)
RelOfItem(item) ==
    IF Len(item) >= 3 /\ IsWord(item[1]) /\ item[2] = ":"
    THEN <<[type |-> item[1], targetSlug |-> Trim(SubSeq(item, 3, Len(item)))]>>
    ELSE <<>>

NormaliseRelationships(raw) ==
    IF raw.t # "list" THEN <<>> ELSE FlatMapSeq(RelOfItem, raw.v)

\* item.startsWith('0x') and /^\d/.test(item) on the first token of an item
Starts0x(t) == t \in {"0xabc"}
StartsDigit(t) == t \in {"0xabc", "2024", "26"}

\* one item of normaliseScope
ScopeOfItem(item) ==
    IF item # <<>> /\ Starts0x(item[1]) THEN <<[entityType |-> "address", entityId |-> item]>>
    ELSE IF item # <<>> /\ StartsDigit(item[1])
    THEN <<[entityType |-> "hat", entityId |-> item]>>
    ELSE <<[entityType |-> "group", entityId |-> item]>>

NormaliseScope(raw) ==
    IF raw.t # "list" THEN <<>> ELSE FlatMapSeq(ScopeOfItem, raw.v)

\* path.includes('README') || path.includes('template') || path.includes('_')
IsSkippedPath(path) ==
    \E i \in 1..Len(path) :
        path[i] \in {"README", "template", "templates"} \/ HasUnderscore(path[i])

\* parseGovernanceDocument: [kind |-> "null"], [kind |-> "throw"] or the parsed record
ParseGovernanceDocument(path, content) ==
    IF IsSkippedPath(path) THEN [kind |-> "null"]
    ELSE LET ex == ExtractFrontmatter(content)
             fm == ex.obj
         IN  IF ex.kind = "null" THEN [kind |-> "null"]
             ELSE IF ex.kind = "throw" THEN [kind |-> "throw"]
             ELSE [kind |-> "doc",
                   id |-> IF Has(fm, "id") THEN Scalar(Get(fm, "id"))
                          ELSE ParserPathToSlug(path),
                   slug |-> ParserPathToSlug(path),
                   type |-> NormaliseType(fm),
                   title |-> IF Has(fm, "title") THEN Scalar(Get(fm, "title"))
                             ELSE TitleFromPath(path),
                   status |-> NormaliseStatus(fm),
                   effectiveFrom |-> IF Has(fm, "effective_from")
                                     THEN Scalar(Get(fm, "effective_from"))
                                     ELSE IF Has(fm, "effectiveFrom")
                                     THEN Scalar(Get(fm, "effectiveFrom")) ELSE NoStr,
                   effectiveTo |-> IF Has(fm, "effective_to")
                                   THEN Scalar(Get(fm, "effective_to"))
                                   ELSE IF Has(fm, "effectiveTo")
                                   THEN Scalar(Get(fm, "effectiveTo")) ELSE NoStr,
                   enactedBy |-> IF Has(fm, "enacted_by")
                                 THEN Scalar(Get(fm, "enacted_by"))
                                 ELSE IF Has(fm, "enactedBy")
                                 THEN Scalar(Get(fm, "enactedBy")) ELSE NoStr,
                   domains |-> NormaliseDomains(Coalesce2(fm, "domain", "domains", List(<<>>))),
                   relationships |-> NormaliseRelationships(
                                         Coalesce2(fm, "related", "relationships", List(<<>>))),
                   scope |-> NormaliseScope(IF Has(fm, "scope") THEN Get(fm, "scope")
                                            ELSE List(<<>>))]


(***************************************************************************)
(* Inputs of the sync workflow: repository paths and file contents         *)
(***************************************************************************)
PathA == <<"agreements", "/", "a", ".md">>
PathB == <<"policies", "/", "b", ".md">>
PathC == <<"proposals", "/", "c", ".md">>
PathD == <<"docs", "/", "d", ".md">>
Paths == {PathA, PathB, PathC, PathD}
PathOperating == <<"agreements", "/", "operating", "-", "agreement", ".md">>
PathReadme == <<"docs", "/", "README", ".md">>
PathNotes == <<"docs", "/", "notes", ".md">>

Fence == <<"---">>
KV(k, v) == <<k, ":", " ">> \o v
Item(v) == <<" ", "-", " ">> \o v

\* type: agreement / status: active / title / domain: [dao-core] / related: - authorized_by: b
DocAgreement ==
    <<Fence, KV("type", <<"agreement">>), KV("status", <<"active">>),
      KV("title", <<"Charter">>), KV("domain", <<"[", "dao", "-", "core", "]">>),
      <<"related", ":">>, Item(<<"authorized_by", ":", " ", "b">>), Fence, <<"text">>>>

\* a revision of the metadata: other type, status, dates, no title, unknown domain
DocPolicy ==
    <<Fence, KV("type", <<"policy">>), KV("effective_from", <<"2024">>),
      KV("enacted_by", <<"0xabc">>), KV("domain", <<"unknown">>),
      KV("scope", <<"[", "0xabc", ",", " ", "26", ",", " ", "ops", "]">>),
      <<"related", ":">>, Item(<<"implements", ":", " ", "a">>),
      Item(<<"mentions", ":", " ", "b">>), Fence>>

\* metadata that declares its own id
DocWithId ==
    <<Fence, KV("id", <<"b">>), KV("type", <<"proposal">>), KV("status", <<"active">>),
      KV("domain", <<"treasury">>),
      <<"related", ":">>, Item(<<"authorized_by", ":", " ", "b">>), Fence>>

\* no metadata block
DocPlainText == <<<<"text">>>>

\* type: agreement / status: active / domain: [dao-core] and the relationship
\* authorized_by -> charter, written as a YAML flow sequence of one mapping, as a block
\* sequence of one mapping, and as the one-line item the parser's comment describes
OperatingHead ==
    <<Fence, KV("type", <<"agreement">>), KV("status", <<"active">>),
      KV("domain", <<"[", "dao", "-", "core", "]">>)>>
DocOperatingFlow ==
    OperatingHead \o
    <<KV("related", <<"[", "{", "type", ":", " ", "authorized_by", ",", " ",
                      "target", ":", " ", "charter", "}", "]">>), Fence>>
DocOperatingBlock ==
    OperatingHead \o
    <<<<"related", ":">>, Item(<<"type", ":", " ", "authorized_by">>),
      <<" ", "target", ":", " ", "charter">>, Fence>>
DocOperatingItem ==
    OperatingHead \o
    <<<<"related", ":">>, Item(<<"authorized_by", ":", " ", "charter">>), Fence>>

\* file contents are held in the state by name; Text gives the lines of a content
Contents == {"agreement", "policy", "withid", "plaintext", "flow", "block", "item"}

Text(content) ==
    CASE content = "agreement" -> DocAgreement
      [] content = "policy" -> DocPolicy
      [] content = "withid" -> DocWithId
      [] content = "flow" -> DocOperatingFlow
      [] content = "block" -> DocOperatingBlock
      [] content = "item" -> DocOperatingItem
      [] OTHER -> DocPlainText

\* the versions of each file the source repository may hold
ContentsOf(path) ==
    CASE path = PathA -> {"agreement", "withid"}
      [] path = PathB -> {"policy"}
      [] path = PathC -> {"agreement", "policy"}
      [] path = PathOperating -> {"flow", "block", "item"}
      [] path = PathReadme -> {"agreement"}
      [] path = PathNotes -> {"plaintext", "policy"}
      [] OTHER -> {"withid"}

(***************************************************************************)
(* Bounds                                                                  *)
(***************************************************************************)
MaxRuns == 2
MaxChanged == 2
MaxDeleted == 1
MaxFaults == 1
MaxPaths == 2
MaxStreak == 2

RunIds == 1..MaxRuns

VARIABLES
    documents,               \* D1 table documents: a bag of rows
    domains,                 \* D1 table domains: a set of rows (seeded)
    document_domains,        \* D1 table document_domains: a bag of rows
    document_relationships,  \* D1 table document_relationships: a bag of rows
    document_scope,          \* D1 table document_scope: a bag of rows
    mirror,                  \* R2 bucket GOVERNANCE_CONTENT: key -> object
    runs,                    \* workflow instances of GovernanceSyncWorkflow
    faults,                  \* store failures injected so far
    touched,                 \* the paths named by the payloads so far
    settled,                 \* history: the (path, content) whose completed sync was the
                             \* last change of the graph store, or NoSync
    solo,                    \* history: the run whose current step attempt has seen no
                             \* graph-store write by another run, or 0
    dangling,                \* history: the relationships a completed sync has skipped
                             \* because the target had no row
    parseTable,              \* parseGovernanceDocument on the inputs of the model
    parsing,                 \* one call of parseGovernanceDocument: its arguments and,
                             \* once it has returned or thrown, its outcome
    repo,                    \* the commits on the main branch of the source repository
    corpus,                  \* the group files data/groups/ of the knowledge base holds
    groupRead                \* history: the last call of fetchGroups and what it returned

VARIABLES
    handlers,                \* webhook: the requests being handled by handleWebhook
    syncState,               \* KV namespace SYNC_STATE: key -> [value, expiration]
    instances,               \* the GOVERNANCE_SYNC.create calls made, a bag of params
    hookClock,               \* webhook: wall clock in seconds
    cache,                   \* KV namespace GOVERNANCE_CACHE: key -> [value, expiration]
    cycle,                   \* the runCacheRefresh call in progress
    fetched,                 \* history: keys whose fetcher the current cycle has invoked
    lastRefresh,             \* history: second of each key's last recorded refresh, or -1
    clock,                   \* cache: wall clock in seconds
    upstream,                \* the version of the data the upstream sources serve
    budget,                  \* cache: cycles started, failures and reads so far
    hatsTree,                \* whether the Hats subgraph serves a tree for HATS_TREE_ID
    lastRead                 \* history: the last call of a cached read path

hookVars == <<handlers, syncState, instances, hookClock>>
readVars == <<hatsTree, lastRead>>
cacheVars == <<cache, cycle, fetched, lastRefresh, clock, upstream, budget, readVars>>
dbVars == <<documents, domains, document_domains, document_relationships, document_scope>>
groupVars == <<corpus, groupRead>>
auxVars == <<parseTable, parsing, repo, groupVars>>
syncVars == <<documents, domains, document_domains, document_relationships, document_scope, mirror,
              runs, faults, touched, settled, solo, dangling, auxVars>>

(***************************************************************************)
(* D1 graph store                                                          *)
(***************************************************************************)
\* seed rows of migrations/0001_initial.sql (id, slug)
SeedDomains ==
    { [id |-> "dom-metagov", slug |-> <<"metagovernance">>],
      [id |-> "dom-operations", slug |-> <<"operations">>],
      [id |-> "dom-platforms", slug |-> <<"platforms">>],
      [id |-> "dom-dao-core", slug |-> <<"dao", "-", "core">>],
      [id |-> "dom-treasury", slug |-> <<"treasury">>] }

\* CHECK (relationship_type IN (...))
RelationshipTypes ==
    {"authorized_by", "implements", "supersedes", "references", "evaluates", "fulfills"}

Rows(bag) == BagToSet(bag)

RECURSIVE SumCopies(_, _)
SumCopies(bag, S) ==
    IF S = {} THEN 0
    ELSE LET r == CHOOSE x \in S : TRUE IN bag[r] + SumCopies(bag, S \ {r})

\* number of rows of the table that satisfy P
CountRows(bag, P(_)) == SumCopies(bag, {r \in Rows(bag) : P(r)})

\* UPDATE ... SET F WHERE P
UpdateWhere(bag, P(_), F(_)) ==
    LET new(r) == IF P(r) THEN F(r) ELSE r
        T == {new(r) : r \in Rows(bag)}
    IN  [t \in T |-> SumCopies(bag, {r \in Rows(bag) : new(r) = t})]

InsertRow(bag, row) == bag (+) SetToBag({row})

\* r2Key = `governance/${path}`
R2Key(path) == <<"governance", "/">> \o path

\* bind(...) of upsertDocument: D1 refuses a value that is not a string, number or null
BindFails(d) ==
    BadBind \in {d.id, d.title, d.effectiveFrom, d.effectiveTo, d.enactedBy}

DocRow(d, r2Key) ==
    [id |-> d.id, slug |-> d.slug, type |-> d.type, title |-> d.title,
     status |-> d.status, effective_from |-> d.effectiveFrom,
     effective_to |-> d.effectiveTo, enacted_by |-> d.enactedBy, r2_key |-> r2Key]

\* ON CONFLICT(slug) DO UPDATE SET title, status, effective_from, effective_to,
\* enacted_by, r2_key (id and type are not in the SET list)
ConflictUpdate(row, d, r2Key) ==
    [row EXCEPT !.title = d.title, !.status = d.status,
                !.effective_from = d.effectiveFrom, !.effective_to = d.effectiveTo,
                !.enacted_by = d.enactedBy, !.r2_key = r2Key]

\* INSERT INTO documents ... ON CONFLICT(slug) DO UPDATE: [ok, docs].  The upsert
\* target (slug UNIQUE) is checked first; a PRIMARY KEY (id) conflict of a row with a
\* new slug aborts the statement.
UpsertDocumentRow(docs, d, r2Key) ==
    LET sameSlug(r) == r.slug = d.slug
        upd(r) == ConflictUpdate(r, d, r2Key)
    IN  IF BindFails(d) THEN [ok |-> FALSE, docs |-> docs]
        ELSE IF \E r \in Rows(docs) : r.slug = d.slug
        THEN [ok |-> TRUE, docs |-> UpdateWhere(docs, sameSlug, upd)]
        ELSE IF \E r \in Rows(docs) : r.id = d.id
        THEN [ok |-> FALSE, docs |-> docs]
        ELSE [ok |-> TRUE, docs |-> InsertRow(docs, DocRow(d, r2Key))]

\* foreign keys are not enforced
DocIdExistsUnenforced(docs, id) == TRUE

\* REFERENCES documents(id), enforced by D1
DocIdExists(docs, id) == \E r \in Rows(docs) : r.id = id

\* the domain loop with a plain INSERT into a table that has no primary key
RECURSIVE UpsertDomainLinksNoKey(_, _, _, _, _)
UpsertDomainLinksNoKey(docs, doms, links, d, n) ==
    IF n = 0 THEN [ok |-> TRUE, links |-> links]
    ELSE LET prev == UpsertDomainLinksNoKey(docs, doms, links, d, n - 1)
             hit == {m \in doms : m.slug = d.domains[n]}
             row == [document_id |-> d.id, domain_id |-> (CHOOSE m \in hit : TRUE).id]
         IN  IF ~prev.ok \/ hit = {} THEN prev
             ELSE IF ~DocIdExists(docs, d.id) THEN [ok |-> FALSE, links |-> prev.links]
             ELSE [ok |-> TRUE, links |-> InsertRow(prev.links, row)]

\* the domain loop when a slug that is not in domains makes the statement fail
RECURSIVE UpsertDomainLinksStrict(_, _, _, _, _)
UpsertDomainLinksStrict(docs, doms, links, d, n) ==
    IF n = 0 THEN [ok |-> TRUE, links |-> links]
    ELSE LET prev == UpsertDomainLinksStrict(docs, doms, links, d, n - 1)
             hit == {m \in doms : m.slug = d.domains[n]}
             row == [document_id |-> d.id, domain_id |-> (CHOOSE m \in hit : TRUE).id]
         IN  IF ~prev.ok THEN prev
             ELSE IF hit = {} \/ ~DocIdExists(docs, d.id)
             THEN [ok |-> FALSE, links |-> prev.links]
             ELSE IF row \in Rows(prev.links) THEN prev
             ELSE [ok |-> TRUE, links |-> InsertRow(prev.links, row)]

\* the domain loop of upsertDocument, on the first n domains: [ok, links]
RECURSIVE UpsertDomainLinks(_, _, _, _, _)
UpsertDomainLinks(docs, doms, links, d, n) ==
    IF n = 0 THEN [ok |-> TRUE, links |-> links]
    ELSE LET prev == UpsertDomainLinks(docs, doms, links, d, n - 1)
             hit == {m \in doms : m.slug = d.domains[n]}
             row == [document_id |-> d.id, domain_id |-> (CHOOSE m \in hit : TRUE).id]
         IN  IF ~prev.ok \/ hit = {} THEN prev
             ELSE IF ~DocIdExists(docs, d.id) THEN [ok |-> FALSE, links |-> prev.links]
             ELSE IF row \in Rows(prev.links) THEN prev      \* OR IGNORE
             ELSE [ok |-> TRUE, links |-> InsertRow(prev.links, row)]

\* the INSERT with a fresh row id for every statement
InsertRelationshipFreshId(docs, edges, fromId, toId, type) ==
    LET row == [id |-> <<fromId, type, toId>>, from_id |-> fromId, to_id |-> toId,
                relationship_type |-> type]
    IN  IF type \notin RelationshipTypes THEN [ok |-> TRUE, edges |-> edges]
        ELSE IF ~DocIdExists(docs, fromId) THEN [ok |-> FALSE, edges |-> edges]
        ELSE [ok |-> TRUE, edges |-> InsertRow(edges, row)]

\* the INSERT into a table without the CHECK on relationship_type
InsertRelationshipNoCheck(docs, edges, fromId, toId, type) ==
    LET row == [id |-> <<fromId, type, toId>>, from_id |-> fromId, to_id |-> toId,
                relationship_type |-> type]
    IN  IF \E e \in Rows(edges) : e.id = row.id THEN [ok |-> TRUE, edges |-> edges]
        ELSE IF ~DocIdExists(docs, fromId) THEN [ok |-> FALSE, edges |-> edges]
        ELSE [ok |-> TRUE, edges |-> InsertRow(edges, row)]

\* one INSERT OR IGNORE INTO document_relationships: [ok, edges]
InsertRelationship(docs, edges, fromId, toId, type) ==
    LET row == [id |-> <<fromId, type, toId>>, from_id |-> fromId, to_id |-> toId,
                relationship_type |-> type]
    IN  IF type \notin RelationshipTypes THEN [ok |-> TRUE, edges |-> edges]
        ELSE IF \E e \in Rows(edges) : e.id = row.id THEN [ok |-> TRUE, edges |-> edges]
        ELSE IF ~DocIdExists(docs, fromId) THEN [ok |-> FALSE, edges |-> edges]
        ELSE [ok |-> TRUE, edges |-> InsertRow(edges, row)]

\* the relationship loop without the `if (!target) continue` guard
RECURSIVE UpsertRelationshipsUnguarded(_, _, _, _)
UpsertRelationshipsUnguarded(docs, edges, d, n) ==
    IF n = 0 THEN [ok |-> TRUE, edges |-> edges]
    ELSE LET prev == UpsertRelationshipsUnguarded(docs, edges, d, n - 1)
             rel == d.relationships[n]
             target == {r \in Rows(docs) : r.slug = rel.targetSlug}
         IN  IF ~prev.ok THEN prev
             ELSE InsertRelationship(docs, prev.edges, d.id,
                                     IF target = {} THEN rel.targetSlug
                                     ELSE (CHOOSE r \in target : TRUE).id, rel.type)

\* the relationship loop of upsertDocument, on the first n relationships: [ok, edges]
RECURSIVE UpsertRelationships(_, _, _, _)
UpsertRelationships(docs, edges, d, n) ==
    IF n = 0 THEN [ok |-> TRUE, edges |-> edges]
    ELSE LET prev == UpsertRelationships(docs, edges, d, n - 1)
             rel == d.relationships[n]
             target == {r \in Rows(docs) : r.slug = rel.targetSlug}
         IN  IF ~prev.ok \/ target = {} THEN prev
             ELSE InsertRelationship(docs, prev.edges, d.id,
                                     (CHOOSE r \in target : TRUE).id, rel.type)

\* an upsert that stores one row of document_scope for every parsed scope entry
ScopeEntriesInserted(table, d) ==
    table (+) SetToBag({[document_id |-> d.id, entity_type |-> d.scope[n].entityType,
                         entity_id |-> d.scope[n].entityId, scope_relation |-> "governs"] :
                           n \in 1..Len(d.scope)})

\* document_scope after upsertDocument: scope is taken out of the parsed record and no
\* statement uses it
ScopeEntries(table, d) == table

\* deleteDocument: UPDATE documents SET status = 'retired' WHERE slug = pathToSlug(path)
RetireDocument(docs, path) ==
    LET hit(r) == r.slug = WorkflowPathToSlug(path)
        retire(r) == [r EXCEPT !.status = "retired"]
    IN  UpdateWhere(docs, hit, retire)

\* queryAgreementDetail / queryPolicyDetail: the rows .first() may return
DetailQuery(docs, idOrSlug, type) ==
    {r \in Rows(docs) : (r.id = idOrSlug \/ r.slug = idOrSlug) /\ r.type = type}


(***************************************************************************)
(* GovernanceSyncWorkflow.run.  Each await inside a step callback is one   *)
(* action.  A step whose callback throws is retried from its start by the  *)
(* workflow engine; when the retries are used up step.do rejects, run()    *)
(* has no try/catch around it, and the instance ends errored.              *)
(***************************************************************************)
NoPath == <<>>
NoContent == ""
NoSync == [path |-> NoPath, content |-> NoContent, n |-> 0]
NoFiles == [p \in {} |-> NoContent]

\* asked, gone and got are history: the changedFiles and deletedFiles of the payload
\* and the result of the fetch step; redo marks a re-invocation
IdleRun ==
    [pc |-> "idle", changed |-> {}, deleted |-> {}, commitSha |-> "",
     files |-> NoFiles, cur |-> NoPath, content |-> NoContent, sub |-> "-",
     err |-> "none", asked |-> {}, gone |-> {}, got |-> NoFiles, redo |-> FALSE]

\* the graph-store part of the model, as the claims compare it
DbView == <<documents, document_domains, document_relationships>>

\* history bookkeeping of a graph-store write by run r inside the sync of (path, content)
SoloAfter(r, first) == IF first \/ solo = r THEN r ELSE 0
SameSync(path, content) == settled.path = path /\ settled.content = content
SettledAfter(path, content) == IF SameSync(path, content) THEN settled ELSE NoSync
SettledDone(path, content) ==
    [path |-> path, content |-> content,
     n |-> IF SameSync(path, content) /\ settled.n >= MaxStreak THEN MaxStreak
           ELSE IF SameSync(path, content) THEN settled.n + 1 ELSE 1]

\* the relationships of d the loop skips because their target has no row
Skipped(docs, d) ==
    {[from |-> d.id, type |-> d.relationships[n].type,
      target |-> d.relationships[n].targetSlug] :
        n \in {m \in 1..Len(d.relationships) :
                  /\ d.relationships[m].type \in RelationshipTypes
                  /\ ~\E row \in Rows(docs) : row.slug = d.relationships[m].targetSlug}}

\* GOVERNANCE_SYNC.create({ params }): an instance of the workflow starts
StartRun(r, changed, deleted) ==
    /\ runs[r].pc = "idle"
    /\ \A q \in RunIds : q < r => runs[q].pc \in {"complete", "errored"}
    /\ Cardinality(changed) <= MaxChanged
    /\ Cardinality(deleted) <= MaxDeleted
    /\ runs' = [runs EXCEPT ![r] = [IdleRun EXCEPT !.pc = "fetch", !.changed = changed,
                                        !.deleted = deleted,
                                        !.commitSha = IF r = 1 THEN "sha1" ELSE "sha2",
                                        !.asked = changed, !.gone = deleted]]
    /\ touched' = touched \cup changed \cup deleted
    /\ Cardinality(touched') <= MaxPaths
    /\ UNCHANGED <<dbVars, mirror, faults, settled, solo, dangling>>
    /\ UNCHANGED <<auxVars, hookVars, cacheVars>>

\* the run before r has ended with an error and its payload is submitted again
Reinvoke(r) ==
    /\ r > 1
    /\ runs[r].pc = "idle"
    /\ runs[r - 1].pc = "errored"
    /\ runs' = [runs EXCEPT ![r] = [IdleRun EXCEPT !.pc = "fetch",
                                        !.changed = runs[r - 1].asked,
                                        !.deleted = runs[r - 1].gone,
                                        !.commitSha = runs[r - 1].commitSha,
                                        !.asked = runs[r - 1].asked,
                                        !.gone = runs[r - 1].gone, !.redo = TRUE]]
    /\ UNCHANGED <<dbVars, mirror, faults, touched, settled, solo, dangling>>
    /\ UNCHANGED <<auxVars, hookVars, cacheVars>>

\* the files raw.githubusercontent.com may serve for the paths: path -> content
Served(paths) ==
    {f \in UNION {[got -> Contents] : got \in SUBSET paths} :
        \A q \in DOMAIN f : f[q] \in ContentsOf(q)}

\* a path whose response is not ok makes the whole fetch throw
FetchFilesAllOrNothing(paths, served) ==
    IF paths \subseteq DOMAIN served
    THEN [ok |-> TRUE, files |-> [q \in paths |-> served[q]]]
    ELSE [ok |-> FALSE, files |-> NoFiles]

\* fetchFilesFromGitHub: results[path] is set when response.ok, else a warning is
\* logged and the path is left out
FetchFilesFromGitHub(paths, served) ==
    [ok |-> TRUE, files |-> [q \in paths \cap DOMAIN served |-> served[q]]]

\* the re-invocation of a run that had fetched finds the source as that run found it
SourceOf(r) ==
    IF runs[r].redo /\ runs[r - 1].sub # "fetch"
    THEN {runs[r - 1].got}
    ELSE Served(runs[r].changed)

\* step 'fetch-files'
FetchFiles(r) ==
    /\ runs[r].pc = "fetch"
    /\ \E served \in SourceOf(r) :
         LET res == FetchFilesFromGitHub(runs[r].changed, served)
         IN  runs' = IF res.ok
                     THEN [runs EXCEPT ![r].pc = "loop", ![r].files = res.files,
                                       ![r].got = res.files, ![r].changed = {}]
                     ELSE [runs EXCEPT ![r].pc = "failed", ![r].sub = "fetch",
                                       ![r].err = "fetch"]
    /\ UNCHANGED <<dbVars, mirror, faults, touched, settled, solo, dangling>>
    /\ UNCHANGED <<auxVars, hookVars, cacheVars>>

\* step 'fetch-files': fetch() rejects (the network fails) and the callback throws
FetchFault(r) ==
    /\ runs[r].pc = "fetch"
    /\ faults < MaxFaults
    /\ faults' = faults + 1
    /\ runs' = [runs EXCEPT ![r].pc = "failed", ![r].sub = "fetch", ![r].err = "fault"]
    /\ UNCHANGED <<dbVars, mirror, touched, settled, solo, dangling>>
    /\ UNCHANGED <<auxVars, hookVars, cacheVars>>

\* for (const [path, content] of Object.entries(fileContents)): the next sync-file step
BeginSync(r, path) ==
    /\ runs[r].pc = "loop"
    /\ path \in DOMAIN runs[r].files
    /\ runs' = [runs EXCEPT ![r].pc = "step", ![r].cur = path,
                            ![r].content = runs[r].files[path],
                            ![r].files = [q \in DOMAIN runs[r].files \ {path} |->
                                             runs[r].files[q]],
                            ![r].sub = "put", ![r].err = "none"]
    /\ UNCHANGED <<dbVars, mirror, faults, touched, settled, solo, dangling>>
    /\ UNCHANGED <<auxVars, hookVars, cacheVars>>

\* the put is acknowledged and the object is not stored
PutObjectLost(store, path, content, commitSha) == store

\* await this.env.GOVERNANCE_CONTENT.put(r2Key, content, { customMetadata })
PutObject(store, path, content, commitSha) ==
    [k \in DOMAIN store \cup {R2Key(path)} |->
        IF k = R2Key(path) THEN [content |-> content, commitSha |-> commitSha]
        ELSE store[k]]

\* a sync step that mirrors only the files the parser indexes
MirrorPutIndexedOnly(r) ==
    /\ runs[r].pc = "step" /\ runs[r].sub = "put"
    /\ mirror' = IF parseTable[runs[r].cur, runs[r].content].kind = "null" THEN mirror
                 ELSE PutObject(mirror, runs[r].cur, runs[r].content, runs[r].commitSha)
    /\ runs' = [runs EXCEPT ![r].sub = "upsert"]
    /\ UNCHANGED <<dbVars, faults, touched, settled, solo, dangling>>
    /\ UNCHANGED <<auxVars, hookVars, cacheVars>>

MirrorPut(r) ==
    /\ runs[r].pc = "step" /\ runs[r].sub = "put"
    /\ mirror' = PutObject(mirror, runs[r].cur, runs[r].content, runs[r].commitSha)
    /\ runs' = [runs EXCEPT ![r].sub = "upsert"]
    /\ UNCHANGED <<dbVars, faults, touched, settled, solo, dangling>>
    /\ UNCHANGED <<auxVars, hookVars, cacheVars>>

\* parseGovernanceDocument(path, content) on the inputs of the model
ParseTable ==
    [pc \in {pc \in (Paths \cup {PathOperating, PathReadme, PathNotes}) \X Contents :
                  pc[2] \in ContentsOf(pc[1])} |->
        ParseGovernanceDocument(pc[1], Text(pc[2]))]

\* the rows of ParseTable for the files at paths
ParseTableOn(paths) ==
    [pc \in {pc \in DOMAIN ParseTable : pc[1] \in paths} |-> ParseTable[pc]]

\* const doc = parseGovernanceDocument(path, content) in the step of run r
Parsed(r) == parseTable[runs[r].cur, runs[r].content]

\* the step callback returned: back to the loops of run()
StepDone(r) == [runs EXCEPT ![r].pc = "loop", ![r].sub = "-", ![r].cur = NoPath,
                            ![r].content = NoContent, ![r].err = "none"]

\* the step callback threw
StepThrew(r, why) == [runs EXCEPT ![r].pc = "failed", ![r].err = why]

\* parseGovernanceDocument, then the INSERT ... ON CONFLICT statement of upsertDocument
UpsertDoc(r) ==
    /\ runs[r].pc = "step" /\ runs[r].sub = "upsert"
    /\ UNCHANGED <<domains, document_domains, document_relationships, document_scope, mirror, faults, touched, dangling>>
    /\ IF Parsed(r).kind = "null"
       THEN /\ runs' = StepDone(r)
            /\ UNCHANGED <<documents, settled, solo>>
       ELSE IF Parsed(r).kind = "throw"
       THEN /\ runs' = StepThrew(r, "parse")
            /\ UNCHANGED <<documents, settled, solo>>
       ELSE LET res == UpsertDocumentRow(documents, Parsed(r), R2Key(runs[r].cur))
            IN  /\ documents' = res.docs
                /\ runs' = IF res.ok THEN [runs EXCEPT ![r].sub = "domains"]
                           ELSE StepThrew(r, "constraint")
                /\ solo' = SoloAfter(r, TRUE)
                /\ settled' = SettledAfter(runs[r].cur, runs[r].content)
    /\ UNCHANGED <<auxVars, hookVars, cacheVars>>

\* the loop over domains of upsertDocument
UpsertDomains(r) ==
    /\ runs[r].pc = "step" /\ runs[r].sub = "domains"
    /\ LET res == UpsertDomainLinks(documents, domains, document_domains, Parsed(r),
                                    Len(Parsed(r).domains))
       IN  /\ document_domains' = res.links
           /\ runs' = IF res.ok THEN [runs EXCEPT ![r].sub = "rels"]
                      ELSE StepThrew(r, "constraint")
    /\ solo' = SoloAfter(r, FALSE)
    /\ settled' = SettledAfter(runs[r].cur, runs[r].content)
    /\ UNCHANGED <<documents, domains, document_relationships, document_scope, mirror, faults, touched, dangling>>
    /\ UNCHANGED <<auxVars, hookVars, cacheVars>>

\* the loop over relationships of upsertDocument; the sync-file step ends with it
UpsertRels(r) ==
    /\ runs[r].pc = "step" /\ runs[r].sub = "rels"
    /\ LET res == UpsertRelationships(documents, document_relationships, Parsed(r),
                                      Len(Parsed(r).relationships))
       IN  /\ document_relationships' = res.edges
           /\ runs' = IF res.ok THEN StepDone(r) ELSE StepThrew(r, "constraint")
           /\ settled' = IF res.ok /\ solo = r
                         THEN SettledDone(runs[r].cur, runs[r].content)
                         ELSE SettledAfter(runs[r].cur, runs[r].content)
           /\ dangling' = IF res.ok THEN dangling \cup Skipped(documents, Parsed(r))
                          ELSE dangling
    /\ solo' = SoloAfter(r, FALSE)
    /\ document_scope' = ScopeEntries(document_scope, Parsed(r))
    /\ UNCHANGED <<documents, domains, document_domains, mirror, faults, touched>>
    /\ UNCHANGED <<auxVars, hookVars, cacheVars>>

\* a delete-file step that does not wait for the sync-file loop
BeginDeleteEarly(r, path) ==
    /\ runs[r].pc = "loop"
    /\ path \in runs[r].deleted
    /\ runs' = [runs EXCEPT ![r].pc = "step", ![r].cur = path,
                            ![r].deleted = runs[r].deleted \ {path},
                            ![r].sub = "r2del", ![r].err = "none"]
    /\ UNCHANGED <<dbVars, mirror, faults, touched, settled, solo, dangling>>
    /\ UNCHANGED <<auxVars, hookVars, cacheVars>>

\* for (const path of deletedFiles): the next delete-file step, after every sync-file step
BeginDelete(r, path) ==
    /\ runs[r].pc = "loop"
    /\ DOMAIN runs[r].files = {}
    /\ path \in runs[r].deleted
    /\ runs' = [runs EXCEPT ![r].pc = "step", ![r].cur = path,
                            ![r].deleted = runs[r].deleted \ {path},
                            ![r].sub = "r2del", ![r].err = "none"]
    /\ UNCHANGED <<dbVars, mirror, faults, touched, settled, solo, dangling>>
    /\ UNCHANGED <<auxVars, hookVars, cacheVars>>

\* await this.env.GOVERNANCE_CONTENT.delete(r2Key)
DeleteObject(store, path) == [k \in DOMAIN store \ {R2Key(path)} |-> store[k]]

MirrorDelete(r) ==
    /\ runs[r].pc = "step" /\ runs[r].sub = "r2del"
    /\ mirror' = DeleteObject(mirror, runs[r].cur)
    /\ runs' = [runs EXCEPT ![r].sub = "retire"]
    /\ UNCHANGED <<dbVars, faults, touched, settled, solo, dangling>>
    /\ UNCHANGED <<auxVars, hookVars, cacheVars>>

\* a retirement that also removes the edges and the links of the retired rows
RetireCascading(r) ==
    /\ runs[r].pc = "step" /\ runs[r].sub = "retire"
    /\ documents' = RetireDocument(documents, runs[r].cur)
    /\ LET gone == {row.id : row \in {x \in Rows(documents) :
                                        x.slug = WorkflowPathToSlug(runs[r].cur)}}
       IN  /\ document_domains' =
                 [l \in {x \in Rows(document_domains) : x.document_id \notin gone} |->
                     document_domains[l]]
           /\ document_relationships' =
                 [e \in {x \in Rows(document_relationships) :
                            x.from_id \notin gone /\ x.to_id \notin gone} |->
                     document_relationships[e]]
    /\ runs' = [StepDone(r) EXCEPT ![r].err = "deleted", ![r].cur = runs[r].cur]
    /\ settled' = NoSync
    /\ solo' = 0
    /\ UNCHANGED <<domains, document_scope, mirror, faults, touched, dangling>>
    /\ UNCHANGED <<auxVars, hookVars, cacheVars>>

\* await deleteDocument(db, path); the delete-file step ends with it
Retire(r) ==
    /\ runs[r].pc = "step" /\ runs[r].sub = "retire"
    /\ documents' = RetireDocument(documents, runs[r].cur)
    /\ runs' = [StepDone(r) EXCEPT ![r].err = "deleted", ![r].cur = runs[r].cur]
    /\ settled' = NoSync
    /\ solo' = 0
    /\ UNCHANGED <<domains, document_domains, document_relationships, document_scope, mirror, faults, touched, dangling>>
    /\ UNCHANGED <<auxVars, hookVars, cacheVars>>

\* a write to the mirror or the graph store fails: the callback throws
StoreFault(r) ==
    /\ runs[r].pc = "step"
    /\ faults < MaxFaults
    /\ faults' = faults + 1
    /\ runs' = StepThrew(r, "fault")
    /\ UNCHANGED <<dbVars, mirror, touched, settled, solo, dangling>>
    /\ UNCHANGED <<auxVars, hookVars, cacheVars>>

\* the engine runs the callback of the failed step again, from its first statement
RetryStep(r) ==
    /\ runs[r].pc = "failed"
    /\ runs' = IF runs[r].sub = "fetch"
               THEN [runs EXCEPT ![r].pc = "fetch", ![r].sub = "-", ![r].err = "none"]
               ELSE [runs EXCEPT ![r].pc = "step",
                                 ![r].sub = IF runs[r].sub \in {"r2del", "retire"}
                                            THEN "r2del" ELSE "put"]
    /\ UNCHANGED <<dbVars, mirror, faults, touched, settled, solo, dangling>>
    /\ UNCHANGED <<auxVars, hookVars, cacheVars>>

\* the retries are used up: step.do rejects and run() ends with the exception
RunErrored(r) ==
    /\ runs[r].pc = "failed"
    /\ runs' = [runs EXCEPT ![r].pc = "errored", ![r].content = NoContent]
    /\ UNCHANGED <<dbVars, mirror, faults, touched, settled, solo, dangling>>
    /\ UNCHANGED <<auxVars, hookVars, cacheVars>>

\* both loops are through: run() returns
RunComplete(r) ==
    /\ runs[r].pc = "loop"
    /\ DOMAIN runs[r].files = {}
    /\ runs[r].deleted = {}
    /\ runs' = [runs EXCEPT ![r] = [IdleRun EXCEPT !.pc = "complete"]]
    /\ UNCHANGED <<dbVars, mirror, faults, touched, settled, solo, dangling>>
    /\ UNCHANGED <<auxVars, hookVars, cacheVars>>

SyncInit ==
    /\ documents = EmptyBag
    /\ domains = SeedDomains
    /\ document_domains = EmptyBag
    /\ document_relationships = EmptyBag
    /\ document_scope = EmptyBag
    /\ mirror = [k \in {} |-> [content |-> NoContent, commitSha |-> ""]]
    /\ runs = [r \in RunIds |-> IdleRun]
    /\ faults = 0
    /\ touched = {}
    /\ settled = NoSync
    /\ solo = 0
    /\ dangling = {}
    /\ repo = <<>>

\* the lists of paths a push payload may hand to run r; a run that has started
\* takes no payload
Payload(r) == IF runs[r].pc = "idle" THEN SUBSET Paths ELSE {}

SyncNext ==
    \E r \in RunIds :
        \/ \E changed \in Payload(r), deleted \in Payload(r) : StartRun(r, changed, deleted)
        \/ Reinvoke(r)
        \/ FetchFiles(r)
        \/ FetchFault(r)
        \/ \E path \in Paths : BeginSync(r, path)
        \/ MirrorPut(r)
        \/ UpsertDoc(r)
        \/ UpsertDomains(r)
        \/ UpsertRels(r)
        \/ \E path \in Paths : BeginDelete(r, path)
        \/ MirrorDelete(r)
        \/ Retire(r)
        \/ StoreFault(r)
        \/ RetryStep(r)
        \/ RunErrored(r)
        \/ RunComplete(r)


(***************************************************************************)
(* Webhook intake: verifyWebhookSignature and handleWebhook.  The signature *)
(* header is a sequence of characters.  HMAC-SHA256 is abstracted to a     *)
(* one-byte keyed digest; its hex rendering and the comparison are the     *)
(* code's.                                                                 *)
(***************************************************************************)
NoHeader == <<"~null">>

\* a.charCodeAt(i) for the characters a signature header is made of
CharCode(c) ==
    CASE c = "0" -> 48 [] c = "1" -> 49 [] c = "2" -> 50 [] c = "3" -> 51
      [] c = "4" -> 52 [] c = "5" -> 53 [] c = "6" -> 54 [] c = "7" -> 55
      [] c = "8" -> 56 [] c = "9" -> 57 [] c = "=" -> 61 [] c = "a" -> 97
      [] c = "b" -> 98 [] c = "c" -> 99 [] c = "d" -> 100 [] c = "e" -> 101
      [] c = "f" -> 102 [] c = "h" -> 104 [] c = "s" -> 115 [] OTHER -> 0

RECURSIVE BitXor(_, _)
BitXor(a, b) ==
    IF a = 0 /\ b = 0 THEN 0
    ELSE ((a + b) % 2) + 2 * BitXor(a \div 2, b \div 2)

RECURSIVE BitOr(_, _)
BitOr(a, b) ==
    IF a = 0 /\ b = 0 THEN 0
    ELSE (IF a % 2 = 1 \/ b % 2 = 1 THEN 1 ELSE 0) + 2 * BitOr(a \div 2, b \div 2)

\* the loop of timingSafeEqual over the first n characters
RECURSIVE XorFold(_, _, _)
XorFold(a, b, n) ==
    IF n = 0 THEN 0
    ELSE BitOr(XorFold(a, b, n - 1), BitXor(CharCode(a[n]), CharCode(b[n])))

\* the comparison without the length test
TimingSafeEqualNoLength(a, b) ==
    XorFold(a, b, IF Len(a) < Len(b) THEN Len(a) ELSE Len(b)) = 0

TimingSafeEqual(a, b) ==
    IF Len(a) # Len(b) THEN FALSE ELSE XorFold(a, b, Len(a)) = 0

Sha256Prefix == <<"s", "h", "a", "2", "5", "6", "=">>

StartsWith(s, prefix) ==
    Len(s) >= Len(prefix) /\ SubSeq(s, 1, Len(prefix)) = prefix

\* env.GITHUB_WEBHOOK_SECRET, and the secret of somebody else
WebhookSecret == 250
OtherSecret == WebhookSecret + 1

\* crypto.subtle.sign('HMAC', key, body): the bytes of the digest
HmacSha256(secret, body) == << (secret + 11 * body) % 256 >>

HexDigit(n) ==
    <<"0", "1", "2", "3", "4", "5", "6", "7", "8", "9", "a", "b", "c", "d", "e", "f">>[n + 1]

\* b.toString(16)
ToString16(b) ==
    IF b < 16 THEN <<HexDigit(b)>> ELSE <<HexDigit(b \div 16), HexDigit(b % 16)>>

\* s.padStart(2, '0')
PadStart2(s) == IF Len(s) < 2 THEN <<"0">> \o s ELSE s

ByteToHex(b) == PadStart2(ToString16(b))

\* Array.from(mac).map(hex).join('')
HexOf(bytes) == FlatMapSeq(ByteToHex, bytes)

VerifyWebhookSignature(body, signature, secret) ==
    IF signature = NoHeader \/ signature = <<>> \/ ~StartsWith(signature, Sha256Prefix)
    THEN FALSE
    ELSE TimingSafeEqual(signature, Sha256Prefix \o HexOf(HmacSha256(secret, body)))

\* request bodies of the model: three push events and one text that is not JSON
Readme == <<"README", ".", "txt">>
Backup == <<"old", ".md", ".", "bak">>
MainRef == "refs/heads/main"
Commit(added, modified, removed) ==
    [added |-> added, modified |-> modified, removed |-> removed]
PushBodies ==
    << [ref |-> MainRef, after |-> "sha1",
        commits |-> << Commit(<<PathA, Readme>>, <<>>, <<PathB>>),
                       Commit(<<>>, <<PathA>>, <<PathB, Readme>>) >>],
       [ref |-> "refs/heads/dev", after |-> "sha2",
        commits |-> << Commit(<<PathA>>, <<>>, <<>>) >>],
       [ref |-> MainRef, after |-> "sha3",
        commits |-> << Commit(<<Readme, Backup>>, <<>>, <<Readme>>) >>] >>
MalformedBody == Len(PushBodies) + 1
Bodies == 1..MalformedBody

\* JSON.parse(body)
JsonParse(body) ==
    IF body = MalformedBody THEN [kind |-> "throw"]
    ELSE [kind |-> "obj", payload |-> PushBodies[body]]

\* the signature headers a request for body may carry
SignedBy(secret, body) == Sha256Prefix \o HexOf(HmacSha256(secret, body))
SignatureHeaders(body) ==
    LET good == SignedBy(WebhookSecret, body)
    IN  { NoHeader, good, SignedBy(OtherSecret, body),
          SubSeq(good, Len(Sha256Prefix) + 1, Len(good)),
          SubSeq(good, 1, Len(good) - 1) }

DeliveryIds == {NoHeader, <<"d1">>}

\* expirationTtl of the replay nonce, in seconds
NonceTtl == 86400

MaxHandlers == 2
MaxHookClock == 2 * NonceTtl
HandlerIds == 1..MaxHandlers

NoResponse == [status |-> 0, outcome |-> "", changed |-> 0, deleted |-> 0]
Respond(status, outcome) ==
    [status |-> status, outcome |-> outcome, changed |-> 0, deleted |-> 0]

IdleHandler ==
    [pc |-> "idle", body |-> 0, signature |-> NoHeader, deliveryId |-> NoHeader,
     at |-> 0, response |-> NoResponse]

\* KV get / put with expirationTtl, at second t
KvLive(store, key, t) == key \in DOMAIN store /\ store[key].expiration > t
KvPut(store, key, value, ttl, t) ==
    [k \in DOMAIN store \cup {key} |->
        IF k = key THEN [value |-> value, expiration |-> t + ttl] ELSE store[k]]
KvDelete(store, key) == [k \in DOMAIN store \ {key} |-> store[k]]
KvPurge(store, t) == [k \in {q \in DOMAIN store : store[q].expiration > t} |-> store[k]]

Digits == <<"0", "1", "2", "3", "4", "5", "6", "7", "8", "9">>

\* now.toString()
RECURSIVE NumToString(_)
NumToString(n) ==
    IF n < 10 THEN <<Digits[n + 1]>>
    ELSE Append(NumToString(n \div 10), Digits[(n % 10) + 1])

DigitValue(c) == (CHOOSE i \in 1..10 : Digits[i] = c) - 1

\* parseInt(s, 10) on a string of digits
RECURSIVE ParseInt(_)
ParseInt(s) ==
    IF Len(s) = 1 THEN DigitValue(s[1])
    ELSE 10 * ParseInt(SubSeq(s, 1, Len(s) - 1)) + DigitValue(s[Len(s)])

\* nonceKey = `webhook:${deliveryId}`
NonceKey(deliveryId) == <<"webhook", ":">> \o deliveryId

\* the list is passed on as it is
UniqueKeepsAll(s) == s

\* [...new Set(list)]
RECURSIVE Unique(_)
Unique(s) ==
    IF s = <<>> THEN <<>>
    ELSE LET init == Unique(SubSeq(s, 1, Len(s) - 1))
             last == s[Len(s)]
         IN  IF last \in Range(init) THEN init ELSE Append(init, last)

AddedAndModified(c) == c.added \o c.modified
Removed(c) == c.removed
ChangedFiles(payload) ==
    Unique(FilterSeq(EndsWithMd, FlatMapSeq(AddedAndModified, payload.commits)))
DeletedFiles(payload) ==
    Unique(FilterSeq(EndsWithMd, FlatMapSeq(Removed, payload.commits)))

\* every ref is taken for the main branch
NotMainNever(payload) == FALSE

\* payload.ref !== 'refs/heads/main'
NotMain(payload) == payload.ref # MainRef

\* the counts of the paths the commits name, before the .md filter and the Set
OkResponseRawCounts(payload) ==
    [status |-> 200, outcome |-> "ok",
     changed |-> Len(FlatMapSeq(AddedAndModified, payload.commits)),
     deleted |-> Len(FlatMapSeq(Removed, payload.commits))]

\* Response.json({ status: 'ok', changed: uniqueChanged.length, deleted: ... })
OkResponse(payload) ==
    [status |-> 200, outcome |-> "ok",
     changed |-> Len(ChangedFiles(payload)), deleted |-> Len(DeletedFiles(payload))]

\* const body = await request.text(); the two headers are read
Receive(h, body, signature, deliveryId) ==
    /\ handlers[h].pc = "idle"
    /\ \A g \in HandlerIds : g < h => handlers[g].pc # "idle"
    /\ signature \in SignatureHeaders(body)
    /\ handlers' = [handlers EXCEPT ![h] =
                       [IdleHandler EXCEPT !.pc = "verify", !.body = body,
                                           !.signature = signature,
                                           !.deliveryId = deliveryId, !.at = hookClock]]
    /\ UNCHANGED <<syncState, instances, hookClock>>
    /\ UNCHANGED <<syncVars, cacheVars>>

\* if (!await verifyWebhookSignature(...)) return 403
Verify(h) ==
    /\ handlers[h].pc = "verify"
    /\ handlers' =
         [handlers EXCEPT ![h] =
            IF ~VerifyWebhookSignature(handlers[h].body, handlers[h].signature,
                                       WebhookSecret)
            THEN [@ EXCEPT !.pc = "done", !.response = Respond(403, "Invalid signature")]
            ELSE IF handlers[h].deliveryId # NoHeader /\ handlers[h].deliveryId # <<>>
            THEN [@ EXCEPT !.pc = "get"]
            ELSE [@ EXCEPT !.pc = "parse"]]
    /\ UNCHANGED <<syncState, instances, hookClock>>
    /\ UNCHANGED <<syncVars, cacheVars>>

\* const existing = await SYNC_STATE.get(nonceKey); if (existing) return duplicate
NonceGet(h) ==
    /\ handlers[h].pc = "get"
    /\ handlers' =
         [handlers EXCEPT ![h] =
            IF KvLive(syncState, NonceKey(handlers[h].deliveryId), hookClock)
            THEN [@ EXCEPT !.pc = "done", !.response = Respond(200, "duplicate")]
            ELSE [@ EXCEPT !.pc = "put"]]
    /\ UNCHANGED <<syncState, instances, hookClock>>
    /\ UNCHANGED <<syncVars, cacheVars>>

\* await SYNC_STATE.put(nonceKey, Date.now().toString(), { expirationTtl: 86400 })
NoncePut(h) ==
    /\ handlers[h].pc = "put"
    /\ syncState' = KvPut(syncState, NonceKey(handlers[h].deliveryId),
                          NumToString(hookClock * 1000), NonceTtl, hookClock)
    /\ handlers' = [handlers EXCEPT ![h].pc = "parse"]
    /\ UNCHANGED <<instances, hookClock>>
    /\ UNCHANGED <<syncVars, cacheVars>>

\* JSON.parse, the branch filter, the file filter, GOVERNANCE_SYNC.create, the response
Dispatch(h) ==
    /\ handlers[h].pc = "parse"
    /\ LET parsed == JsonParse(handlers[h].body)
           changed == ChangedFiles(parsed.payload)
           deleted == DeletedFiles(parsed.payload)
           params == [changedFiles |-> changed, deletedFiles |-> deleted,
                      commitSha |-> parsed.payload.after,
                      deliveryId |-> handlers[h].deliveryId, at |-> handlers[h].at]
       IN  IF parsed.kind = "throw"
           THEN /\ handlers' = [handlers EXCEPT ![h].pc = "done",
                                   ![h].response = Respond(500, "exception")]
                /\ UNCHANGED instances
           ELSE IF NotMain(parsed.payload)
           THEN /\ handlers' = [handlers EXCEPT ![h].pc = "done",
                                   ![h].response = Respond(200, "ignored")]
                /\ UNCHANGED instances
           ELSE IF Len(changed) = 0 /\ Len(deleted) = 0
           THEN /\ handlers' = [handlers EXCEPT ![h].pc = "done",
                                   ![h].response = Respond(200, "ignored")]
                /\ UNCHANGED instances
           ELSE /\ instances' = InsertRow(instances, params)
                /\ handlers' = [handlers EXCEPT ![h].pc = "done",
                                   ![h].response = OkResponse(parsed.payload)]
    /\ UNCHANGED <<syncState, hookClock>>
    /\ UNCHANGED <<syncVars, cacheVars>>

\* time passes between requests; KV drops the entries that have expired
HookTick ==
    /\ \A h \in HandlerIds : handlers[h].pc \in {"idle", "done"}
    /\ hookClock + NonceTtl \div 2 <= MaxHookClock
    /\ hookClock' = hookClock + NonceTtl \div 2
    /\ syncState' = KvPurge(syncState, hookClock')
    /\ UNCHANGED <<handlers, instances>>
    /\ UNCHANGED <<syncVars, cacheVars>>

HookInit ==
    /\ handlers = [h \in HandlerIds |-> IdleHandler]
    /\ syncState = [k \in {} |-> [value |-> <<>>, expiration |-> 0]]
    /\ instances = EmptyBag
    /\ hookClock = 0

HookNext ==
    \/ \E h \in HandlerIds :
          \/ \E body \in Bodies, deliveryId \in DeliveryIds :
               \E signature \in SignatureHeaders(body) :
                  Receive(h, body, signature, deliveryId)
          \/ Verify(h)
          \/ NonceGet(h)
          \/ NoncePut(h)
          \/ Dispatch(h)
    \/ HookTick


(***************************************************************************)
(* Aggregate cache: runCacheRefresh and refreshIfDue over GOVERNANCE_CACHE. *)
(* A cached aggregate is represented by the version of the upstream data   *)
(* it was computed from.  Date.now() is clock * 1000.                      *)
(***************************************************************************)
\* TTLs in seconds
TTL ==
    [members |-> 30 * 60, proposals |-> 15 * 60, activity |-> 15 * 60,
     roles |-> 30 * 60, groups |-> 2 * 60 * 60, ensProfiles |-> 24 * 60 * 60]

KeyMembers == <<"daoip2:members">>
KeyProposals == <<"daoip2:proposals">>
KeyActivity == <<"daoip2:activity">>
KeyRoles == <<"sb:roles">>
KeyGroups == <<"sb:groups">>
KeyDao == <<"daoip2:dao">>

\* the keys runCacheRefresh passes to refreshIfDue
TrackedKeys == {KeyMembers, KeyProposals, KeyActivity, KeyRoles, KeyGroups}

\* the ttlSeconds argument of each refreshIfDue call
TtlOf(key) ==
    CASE key = KeyMembers -> TTL.members
      [] key = KeyProposals -> TTL.proposals
      [] key = KeyActivity -> TTL.activity
      [] key = KeyRoles -> TTL.roles
      [] key = KeyGroups -> TTL.groups

\* expirationTtl of the put a read-through fetcher does on a miss
ReadTtl(key) ==
    CASE key = KeyProposals -> 15 * 60
      [] key = KeyActivity -> 15 * 60
      [] key = KeyRoles -> 30 * 60
      [] key = KeyGroups -> 2 * 60 * 60
      [] OTHER -> 30 * 60

\* the fetcher of members is buildMembersPayload, which does not read the cache;
\* fetchProposals, fetchActivity, fetchRoles and fetchGroups do
ReadsThrough(key) == key # KeyMembers

\* lastRunKey = `lastrun:${key}`
LastRunKey(key) == <<"lastrun:">> \o key

\* the due test with the TTL taken for milliseconds
NotDueYetNoScale(store, key, ttlSeconds, now, t) ==
    /\ KvLive(store, LastRunKey(key), t)
    /\ store[LastRunKey(key)].value # <<>>
    /\ now - ParseInt(store[LastRunKey(key)].value) < ttlSeconds

\* lastRun && now - parseInt(lastRun, 10) < ttlSeconds * 1000
NotDueYet(store, key, ttlSeconds, now, t) ==
    /\ KvLive(store, LastRunKey(key), t)
    /\ store[LastRunKey(key)].value # <<>>
    /\ now - ParseInt(store[LastRunKey(key)].value) < ttlSeconds * 1000

MaxCycles == 2
MaxFetchFaults == 1
MaxVersion == 2
MaxReads == 2
MaxClock == 901
ClockSteps == {401, 499, 500}

\* activity = [] and the [] fetchRoles returns for a missing tree
EmptyList == 0
\* data.data?.tree?.hats ?? null
NoTree == -1

\* what the source of a key serves: fetchHoldersFromChain, fetchFromSnapshot,
\* fetchFromSubgraph, fetchFromGitHub; the activity log has no source yet
SourceValue(key, version, tree) ==
    CASE key = KeyActivity -> EmptyList
      [] key = KeyRoles /\ ~tree -> NoTree
      [] OTHER -> version

\* a cached read that neither looks at the cache on a hit nor stores on a miss
FetchCachedNoCache(store, key, t, version, tree) ==
    LET v == SourceValue(key, version, tree)
    IN  [value |-> IF v = NoTree THEN EmptyList ELSE v,
         store |-> store,
         contacted |-> key # KeyActivity]

\* fetchMembers(env), fetchProposals(env, {}), fetchActivity(env, {}), fetchRoles(env),
\* fetchGroups(env): cached = get(key); if (cached) parse it, else ask the source and
\* put the answer (fetchRoles only when there is a tree)
FetchCached(store, key, t, version, tree) ==
    IF KvLive(store, key, t)
    THEN [value |-> store[key].value, store |-> store, contacted |-> FALSE]
    ELSE LET v == SourceValue(key, version, tree)
         IN  [value |-> IF v = NoTree THEN EmptyList ELSE v,
              store |-> IF v = NoTree THEN store
                        ELSE KvPut(store, key, v, ReadTtl(key), t),
              contacted |-> key # KeyActivity]

\* the fetcher argument of each refreshIfDue call
RefreshFetcher(store, key, t, version, tree) ==
    IF ReadsThrough(key)
    THEN FetchCached(store, key, t, version, tree)
    ELSE [value |-> SourceValue(key, version, tree), store |-> store,
          contacted |-> TRUE]

\* buildDaoDescriptor: resolveDaoIdentity (name 'SuperBenefit' when ENS fails),
\* fetchMembers(env) and fetchProposals(env, {})
BuildDaoDescriptor(store, t, version, tree, ensOk) ==
    LET m == FetchCached(store, KeyMembers, t, version, tree)
        p == FetchCached(m.store, KeyProposals, t, version, tree)
    IN  [value |-> [identity |-> IF ensOk THEN version ELSE 0,
                    members |-> m.value, proposals |-> p.value],
         store |-> p.store,
         contacted |-> TRUE]

\* the gate is applied to a forced cycle as well
FirstStepGated(force) == "check"

\* if (!force) { ... } : a forced refresh skips the lastrun gate
FirstStep(force) == IF force THEN "fetch" ELSE "check"

\* a failure of one key ends the refresh of every key
CaughtCancelsAll(c, k) ==
    [c EXCEPT !.pc = [j \in TrackedKeys |-> "done"], !.threw = @ \cup {k}]

\* catch (err) { console.error(...) }: the refreshIfDue call of the key resolves
Caught(c, k) == [c EXCEPT !.pc[k] = "done", !.threw = @ \cup {k}]

\* the descriptor is left in place
InvalidateNever(store, force) == store

\* if (force) { await delete('daoip2:dao') }
Invalidate(store, force) == IF force THEN KvDelete(store, KeyDao) ELSE store

\* Promise.allSettled: every refreshIfDue call has resolved or rejected
Settled(c) == \A k \in TrackedKeys : c.pc[k] \in {"done", "failed"}

NoCycle ==
    [active |-> FALSE, force |-> FALSE, now |-> 0,
     pc |-> [k \in TrackedKeys |-> "done"], value |-> [k \in TrackedKeys |-> 0],
     seen |-> [k \in TrackedKeys |-> -1], threw |-> {},
     lost |-> [k \in TrackedKeys |-> "-"]]

NoRead == [key |-> <<>>, value |-> <<>>, hit |-> FALSE, contacted |-> FALSE]

\* scheduled() calls runCacheRefresh(env); handleInternalRefresh calls it with force
StartCycle(force) ==
    /\ ~cycle.active
    /\ budget.cycles < MaxCycles
    /\ budget' = [budget EXCEPT !.cycles = @ + 1]
    /\ cycle' = [active |-> TRUE, force |-> force, now |-> clock * 1000,
                 pc |-> [k \in TrackedKeys |-> FirstStep(force)],
                 value |-> [k \in TrackedKeys |-> 0], seen |-> lastRefresh,
                 threw |-> {}, lost |-> cycle.lost]
    /\ fetched' = {}
    /\ UNCHANGED <<cache, lastRefresh, clock, upstream>>
    /\ UNCHANGED <<syncVars, hookVars, readVars>>

\* if (!force) { lastRun = await get(lastRunKey); if (... not due) return }
CheckDue(k) ==
    /\ cycle.active /\ cycle.pc[k] = "check"
    /\ cycle' = [cycle EXCEPT !.pc[k] =
                    IF NotDueYet(cache, k, TtlOf(k), cycle.now, clock)
                    THEN "done" ELSE "fetch"]
    /\ UNCHANGED <<cache, fetched, lastRefresh, clock, upstream, budget>>
    /\ UNCHANGED <<syncVars, hookVars, readVars>>

\* await get(lastRunKey) throws: it is outside the try block, the refreshIfDue call
\* rejects and Promise.allSettled records the rejection
CheckFails(k) ==
    /\ cycle.active /\ cycle.pc[k] = "check"
    /\ budget.faults < MaxFetchFaults
    /\ budget' = [budget EXCEPT !.faults = @ + 1]
    /\ cycle' = [cycle EXCEPT !.pc[k] = "failed", !.threw = @ \cup {k}]
    /\ UNCHANGED <<cache, fetched, lastRefresh, clock, upstream>>
    /\ UNCHANGED <<syncVars, hookVars, readVars>>

\* const value = await fetcher(): the fetcher returns
Fetch(k) ==
    /\ cycle.active /\ cycle.pc[k] = "fetch"
    /\ fetched' = fetched \cup {k}
    /\ LET f == RefreshFetcher(cache, k, clock, upstream, hatsTree)
       IN  /\ cycle' = [cycle EXCEPT !.pc[k] = "put", !.value[k] = f.value,
                                     !.lost[k] = "-"]
           /\ cache' = f.store
    /\ UNCHANGED <<lastRefresh, clock, upstream, budget>>
    /\ UNCHANGED <<syncVars, hookVars, readVars>>

\* history: whether the key whose fetcher threw was due when the call was made
LostAs(k) == IF NotDueYet(cache, k, TtlOf(k), cycle.now, clock) THEN "early" ELSE "due"

\* the fetcher throws and the last-refresh record is written all the same
FetchFailsMarksRun(k) ==
    /\ cycle.active /\ cycle.pc[k] = "fetch"
    /\ budget.faults < MaxFetchFaults
    /\ budget' = [budget EXCEPT !.faults = @ + 1]
    /\ fetched' = fetched \cup {k}
    /\ cycle' = [Caught(cycle, k) EXCEPT !.lost[k] = LostAs(k)]
    /\ cache' = KvPut(cache, LastRunKey(k), NumToString(cycle.now), TtlOf(k) * 2, clock)
    /\ lastRefresh' = [lastRefresh EXCEPT ![k] = clock]
    /\ UNCHANGED <<clock, upstream>>
    /\ UNCHANGED <<syncVars, hookVars, readVars>>

\* const value = await fetcher(): the source or the cache fails and the fetcher
\* throws; the catch block logs
FetchFails(k) ==
    /\ cycle.active /\ cycle.pc[k] = "fetch"
    /\ budget.faults < MaxFetchFaults
    /\ budget' = [budget EXCEPT !.faults = @ + 1]
    /\ fetched' = fetched \cup {k}
    /\ cycle' = [Caught(cycle, k) EXCEPT !.lost[k] = LostAs(k)]
    /\ UNCHANGED <<cache, lastRefresh, clock, upstream>>
    /\ UNCHANGED <<syncVars, hookVars, readVars>>

\* await put(key, JSON.stringify(value), { expirationTtl: ttlSeconds * 2 })
PutValue(k) ==
    /\ cycle.active /\ cycle.pc[k] = "put"
    /\ cache' = KvPut(cache, k, cycle.value[k], TtlOf(k) * 2, clock)
    /\ cycle' = [cycle EXCEPT !.pc[k] = "mark"]
    /\ UNCHANGED <<fetched, lastRefresh, clock, upstream, budget>>
    /\ UNCHANGED <<syncVars, hookVars, readVars>>

\* await put(lastRunKey, now.toString(), { expirationTtl: ttlSeconds * 2 })
PutLastRun(k) ==
    /\ cycle.active /\ cycle.pc[k] = "mark"
    /\ cache' = KvPut(cache, LastRunKey(k), NumToString(cycle.now), TtlOf(k) * 2, clock)
    /\ cycle' = [cycle EXCEPT !.pc[k] = "done"]
    /\ lastRefresh' = [lastRefresh EXCEPT ![k] = clock]
    /\ UNCHANGED <<fetched, clock, upstream, budget>>
    /\ UNCHANGED <<syncVars, hookVars, readVars>>

\* one of the two puts throws; the catch block logs
PutFails(k) ==
    /\ cycle.active /\ cycle.pc[k] \in {"put", "mark"}
    /\ budget.faults < MaxFetchFaults
    /\ budget' = [budget EXCEPT !.faults = @ + 1]
    /\ cycle' = Caught(cycle, k)
    /\ UNCHANGED <<cache, fetched, lastRefresh, clock, upstream>>
    /\ UNCHANGED <<syncVars, hookVars, readVars>>

\* Promise.allSettled has settled; if (force) delete('daoip2:dao'); the cycle returns
EndCycle ==
    /\ cycle.active
    /\ Settled(cycle)
    /\ cache' = Invalidate(cache, cycle.force)
    /\ cycle' = [cycle EXCEPT !.active = FALSE]
    /\ UNCHANGED <<fetched, lastRefresh, clock, upstream, budget>>
    /\ UNCHANGED <<syncVars, hookVars, readVars>>

\* time passes between cycles; KV drops the entries that have expired
Tick(step) ==
    /\ ~cycle.active
    /\ clock + step <= MaxClock
    /\ clock' = clock + step
    /\ cache' = KvPurge(cache, clock')
    /\ lastRefresh' = [k \in TrackedKeys |->
                          IF KvLive(cache, LastRunKey(k), clock') THEN lastRefresh[k]
                          ELSE -1]
    /\ UNCHANGED <<cycle, fetched, upstream, budget>>
    /\ UNCHANGED <<syncVars, hookVars, readVars>>

\* the upstream sources change what they serve
UpstreamChange ==
    /\ ~cycle.active
    /\ upstream < MaxVersion
    /\ upstream' = upstream + 1
    /\ UNCHANGED <<cache, cycle, fetched, lastRefresh, clock, budget>>
    /\ UNCHANGED <<syncVars, hookVars, readVars>>

\* the refreshIfDue calls in the order of the array given to Promise.allSettled
RefreshOrder == <<KeyMembers, KeyProposals, KeyActivity, KeyRoles, KeyGroups>>

NoKeys == {{}}

\* the try block of refreshIfDue for one key, run to its end
RefreshKey(store, key, now, t, version, tree) ==
    LET f == RefreshFetcher(store, key, t, version, tree)
        valued == KvPut(f.store, key, f.value, TtlOf(key) * 2, t)
    IN  KvPut(valued, LastRunKey(key), NumToString(now), TtlOf(key) * 2, t)

\* the store after the forced refreshIfDue calls of keys[n..] have settled, the
\* calls of the keys in failing having thrown in the fetcher
RECURSIVE RefreshFrom(_, _, _, _, _, _, _, _)
RefreshFrom(store, keys, n, failing, now, t, version, tree) ==
    IF n > Len(keys) THEN store
    ELSE RefreshFrom(IF keys[n] \in failing THEN store
                     ELSE RefreshKey(store, keys[n], now, t, version, tree),
                     keys, n + 1, failing, now, t, version, tree)

\* handleInternalRefresh: runCacheRefresh(env, { force: true }) from call to return;
\* the refreshIfDue calls touch disjoint keys, so their interleaving does not matter
ForcedRefresh(failing) ==
    /\ ~cycle.active
    /\ budget.cycles < MaxCycles
    /\ budget.faults + Cardinality(failing) <= MaxFetchFaults
    /\ budget' = [budget EXCEPT !.cycles = @ + 1, !.faults = @ + Cardinality(failing)]
    /\ cache' = Invalidate(RefreshFrom(cache, RefreshOrder, 1, failing, clock * 1000,
                                       clock, upstream, hatsTree), TRUE)
    /\ lastRefresh' = [k \in TrackedKeys |->
                          IF k \in failing THEN lastRefresh[k] ELSE clock]
    /\ UNCHANGED <<cycle, fetched, clock, upstream>>
    /\ UNCHANGED <<syncVars, hookVars, readVars>>

\* the Hats subgraph stops serving the tree
HatsTreeGone ==
    /\ ~cycle.active
    /\ hatsTree
    /\ hatsTree' = FALSE
    /\ UNCHANGED <<cache, cycle, fetched, lastRefresh, clock, upstream, budget, lastRead>>
    /\ UNCHANGED <<syncVars, hookVars>>

\* a route or tool calls fetchMembers, fetchProposals, fetchActivity, fetchRoles or
\* fetchGroups without parameters
ReadKey(k) ==
    /\ budget.reads < MaxReads
    /\ budget' = [budget EXCEPT !.reads = @ + 1]
    /\ LET f == FetchCached(cache, k, clock, upstream, hatsTree)
       IN  /\ cache' = f.store
           /\ lastRead' = [key |-> k, value |-> <<f.value>>,
                           hit |-> KvLive(cache, k, clock), contacted |-> f.contacted]
    /\ UNCHANGED <<cycle, fetched, lastRefresh, clock, upstream, hatsTree>>
    /\ UNCHANGED <<syncVars, hookVars>>

\* getDaoDescriptor: cached = get('daoip2:dao'); if (cached) return it; else build the
\* descriptor and put it with expirationTtl TTL.members
GetDaoDescriptor(ensOk) ==
    /\ budget.reads < MaxReads
    /\ budget' = [budget EXCEPT !.reads = @ + 1]
    /\ IF KvLive(cache, KeyDao, clock)
       THEN /\ lastRead' = [key |-> KeyDao, value |-> <<cache[KeyDao].value>>,
                            hit |-> TRUE, contacted |-> FALSE]
            /\ UNCHANGED cache
       ELSE LET b == BuildDaoDescriptor(cache, clock, upstream, hatsTree, ensOk)
            IN  /\ cache' = KvPut(b.store, KeyDao, b.value, TTL.members, clock)
                /\ lastRead' = [key |-> KeyDao, value |-> <<b.value>>,
                                hit |-> FALSE, contacted |-> b.contacted]
    /\ UNCHANGED <<cycle, fetched, lastRefresh, clock, upstream, hatsTree>>
    /\ UNCHANGED <<syncVars, hookVars>>

CacheInit ==
    /\ cache = [k \in {} |-> [value |-> 0, expiration |-> 0]]
    /\ cycle = NoCycle
    /\ fetched = {}
    /\ lastRefresh = [k \in TrackedKeys |-> -1]
    /\ clock = 0
    /\ upstream = 1
    /\ budget = [cycles |-> 0, faults |-> 0, reads |-> 0]
    /\ hatsTree = TRUE
    /\ lastRead = NoRead

CacheNext ==
    \/ \E force \in BOOLEAN : StartCycle(force)
    \/ \E k \in TrackedKeys :
          \/ CheckDue(k)
          \/ CheckFails(k)
          \/ Fetch(k)
          \/ FetchFails(k)
          \/ PutValue(k)
          \/ PutLastRun(k)
          \/ PutFails(k)
    \/ EndCycle
    \/ \E step \in ClockSteps : Tick(step)
    \/ UpstreamChange

\* the cached read paths between forced refreshes
ReadNext ==
    \/ \E failing \in NoKeys \cup {{k} : k \in TrackedKeys} : ForcedRefresh(failing)
    \/ \E k \in TrackedKeys : ReadKey(k)
    \/ \E ensOk \in BOOLEAN : GetDaoDescriptor(ensOk)
    \/ \E step \in ClockSteps : Tick(step)
    \/ UpstreamChange
    \/ HatsTreeGone


(***************************************************************************)
(* Specifications                                                          *)
(***************************************************************************)
vars == <<syncVars, hookVars, cacheVars>>

NotParsing == [path |-> NoPath, content |-> <<>>, out |-> <<>>]

NoGroupRead == [id |-> "", result |-> {}, hit |-> FALSE]

\* no call of fetchGroups has been made and the knowledge base has no group files
GroupsIdle == corpus = {} /\ groupRead = NoGroupRead

\* the worker after deployment, the parser tabulated on the files at paths
Deployed(paths) ==
    /\ SyncInit /\ HookInit /\ CacheInit /\ parsing = NotParsing /\ GroupsIdle
    /\ parseTable = ParseTableOn(paths)

Init == Deployed(Paths)

\* the subsystems that sync no file
WorkerInit == Deployed({})

\* the sync pipeline: workflow runs one after the other
Next == SyncNext
Spec == Init /\ [][Next]_vars

\* the webhook endpoint: requests handled concurrently
WebhookSpec == WorkerInit /\ [][HookNext]_vars

\* the refresh cycles of the aggregate cache
CacheSpec == WorkerInit /\ [][CacheNext]_vars

\* the cached read paths and the forced refresh
ReadSpec == WorkerInit /\ [][ReadNext]_vars

(***************************************************************************)
(* parseGovernanceDocument as a function of its two arguments              *)
(***************************************************************************)
MaxLines == 4

\* the lines a file is made of
LinePool ==
    {Fence, KV("title", <<"Charter">>), Item(<<"x">>), <<"related", ":">>, <<"text">>}

FileTexts == UNION {[1..n -> LinePool] : n \in 0..MaxLines}

\* the call returns a record or null, or throws
Parse ==
    /\ parsing.out = <<>>
    /\ parsing.path # NoPath
    /\ parsing' = [parsing EXCEPT
                      !.out = <<ParseGovernanceDocument(parsing.path, parsing.content)>>]
    /\ UNCHANGED <<dbVars, mirror, runs, faults, touched, settled, solo, dangling,
                   parseTable, repo, groupVars>>
    /\ UNCHANGED <<hookVars, cacheVars>>

ParseInit ==
    /\ SyncInit /\ HookInit /\ CacheInit /\ GroupsIdle
    /\ parseTable = ParseTableOn({})
    /\ parsing \in [path : {PathA, PathReadme}, content : FileTexts, out : {<<>>}]

ParseNext == Parse

\* one call of the parser on every path and file text within the bounds
ParseSpec == ParseInit /\ [][ParseNext]_vars

(***************************************************************************)
(* The sync pipeline on a graph store that already holds document charter  *)
(***************************************************************************)
\* the row an earlier sync of charter.md has left
CharterRow(status) ==
    [id |-> <<"charter">>, slug |-> <<"charter">>, type |-> "agreement",
     title |-> <<"Charter">>, status |-> status, effective_from |-> NoStr,
     effective_to |-> NoStr, enacted_by |-> NoStr,
     r2_key |-> R2Key(<<"charter", ".md">>)]

SeededInit ==
    /\ HookInit /\ CacheInit /\ GroupsIdle
    /\ \E status \in {"active", "draft"} : documents = SetToBag({CharterRow(status)})
    /\ domains = SeedDomains
    /\ document_domains = EmptyBag
    /\ document_relationships = EmptyBag
    /\ document_scope = EmptyBag
    /\ mirror = [k \in {R2Key(<<"charter", ".md">>)} |->
                    [content |-> "agreement", commitSha |-> "sha0"]]
    /\ runs = [r \in RunIds |-> IdleRun]
    /\ faults = 0
    /\ touched = {}
    /\ settled = NoSync
    /\ solo = 0
    /\ dangling = {}
    /\ parseTable = ParseTableOn({PathOperating})
    /\ parsing = NotParsing
    /\ repo = <<>>

SeededNext ==
    \E r \in RunIds :
        \/ StartRun(r, {PathOperating}, {})
        \/ Reinvoke(r)
        \/ FetchFiles(r)
        \/ FetchFault(r)
        \/ BeginSync(r, PathOperating)
        \/ MirrorPut(r)
        \/ UpsertDoc(r)
        \/ UpsertDomains(r)
        \/ UpsertRels(r)
        \/ StoreFault(r)
        \/ RetryStep(r)
        \/ RunErrored(r)
        \/ RunComplete(r)

\* pushes that change agreements/operating-agreement.md, charter being there
SeededSpec == SeededInit /\ [][SeededNext]_vars

(***************************************************************************)
(* Workflow instances created by two accepted pushes, running at once      *)
(***************************************************************************)
\* ctx.waitUntil(GOVERNANCE_SYNC.create({ params })): the instance starts whether or
\* not an earlier instance has ended
CreateInstance(r, changed, deleted) ==
    /\ runs[r].pc = "idle"
    /\ changed \cup deleted # {}
    /\ runs' = [runs EXCEPT ![r] = [IdleRun EXCEPT !.pc = "fetch", !.changed = changed,
                                        !.deleted = deleted,
                                        !.commitSha = IF r = 1 THEN "sha1" ELSE "sha2",
                                        !.asked = changed, !.gone = deleted]]
    /\ touched' = touched \cup changed \cup deleted
    /\ UNCHANGED <<dbVars, mirror, faults, settled, solo, dangling>>
    /\ UNCHANGED <<auxVars, hookVars, cacheVars>>

ConcurrentNext ==
    \E r \in RunIds :
        \/ \E changed \in SUBSET {PathC}, deleted \in SUBSET {PathC} :
              CreateInstance(r, changed, deleted)
        \/ FetchFiles(r)
        \/ BeginSync(r, PathC)
        \/ MirrorPut(r)
        \/ UpsertDoc(r)
        \/ UpsertDomains(r)
        \/ UpsertRels(r)
        \/ BeginDelete(r, PathC)
        \/ MirrorDelete(r)
        \/ Retire(r)
        \/ StoreFault(r)
        \/ RetryStep(r)
        \/ RunErrored(r)
        \/ RunComplete(r)

\* two runs that touch proposals/c.md, their awaits interleaved
ConcurrentSpec == Init /\ [][ConcurrentNext]_vars

(***************************************************************************)
(* Pushes to the main branch and the runs their webhooks create.  The      *)
(* fetch step reads raw.githubusercontent.com/<repo>/main/<path>: the file *)
(* at the head of main when the request is served.                         *)
(***************************************************************************)
MaxCommits == 3

ShaOf(n) == CASE n = 1 -> "sha1" [] n = 2 -> "sha2" [] OTHER -> "sha3"

\* a push to main that modifies agreements/a.md
PushCommit(content) ==
    /\ Len(repo) < MaxCommits
    /\ content \in ContentsOf(PathA)
    /\ repo # <<>> => content # repo[Len(repo)].content
    /\ repo' = Append(repo, [sha |-> ShaOf(Len(repo) + 1), content |-> content])
    /\ UNCHANGED <<dbVars, mirror, runs, faults, touched, settled, solo, dangling,
                   parseTable, parsing, groupVars>>
    /\ UNCHANGED <<hookVars, cacheVars>>

\* the webhook of the r-th push is accepted: payload.after is the commit of that push
Deliver(r) ==
    /\ r <= Len(repo)
    /\ runs[r].pc = "idle"
    /\ runs' = [runs EXCEPT ![r] = [IdleRun EXCEPT !.pc = "fetch", !.changed = {PathA},
                                        !.commitSha = repo[r].sha, !.asked = {PathA}]]
    /\ touched' = touched \cup {PathA}
    /\ UNCHANGED <<dbVars, mirror, faults, settled, solo, dangling>>
    /\ UNCHANGED <<auxVars, hookVars, cacheVars>>

\* what the raw endpoint serves for .../main/<path> now
HeadOfMain == [p \in {PathA} |-> repo[Len(repo)].content]

\* step 'fetch-files' against the repository
FetchMain(r) ==
    /\ runs[r].pc = "fetch"
    /\ repo # <<>>
    /\ LET res == FetchFilesFromGitHub(runs[r].changed, HeadOfMain)
       IN  runs' = [runs EXCEPT ![r].pc = "loop", ![r].files = res.files,
                                ![r].got = res.files, ![r].changed = {}]
    /\ UNCHANGED <<dbVars, mirror, faults, touched, settled, solo, dangling>>
    /\ UNCHANGED <<auxVars, hookVars, cacheVars>>

PushNext ==
    \/ \E content \in Contents : PushCommit(content)
    \/ \E r \in RunIds :
          \/ Deliver(r)
          \/ FetchMain(r)
          \/ BeginSync(r, PathA)
          \/ MirrorPut(r)
          \/ UpsertDoc(r)
          \/ UpsertDomains(r)
          \/ UpsertRels(r)
          \/ RetryStep(r)
          \/ RunErrored(r)
          \/ RunComplete(r)

\* pushes to main and the runs of their webhooks
PushSpec == Init /\ [][PushNext]_vars

(***************************************************************************)
(* Pushes that change files the parser does not index: a README with a     *)
(* metadata block and notes without one (or, in another version, with one) *)
(***************************************************************************)
UnindexedPaths == {PathReadme, PathNotes}

UnindexedNext ==
    \E r \in RunIds :
        \/ \E changed \in SUBSET UnindexedPaths : StartRun(r, changed, {})
        \/ Reinvoke(r)
        \/ FetchFiles(r)
        \/ FetchFault(r)
        \/ \E path \in UnindexedPaths : BeginSync(r, path)
        \/ MirrorPut(r)
        \/ UpsertDoc(r)
        \/ UpsertDomains(r)
        \/ UpsertRels(r)
        \/ StoreFault(r)
        \/ RetryStep(r)
        \/ RunErrored(r)
        \/ RunComplete(r)

UnindexedInit == Deployed(UnindexedPaths)

UnindexedSpec == UnindexedInit /\ [][UnindexedNext]_vars

(***************************************************************************)
(* fetchGroups and the refresh of key sb:groups.  Here the value cached    *)
(* under sb:groups is the list of groups itself (as a set: the order of   *)
(* the list plays no part); JSON.stringify / JSON.parse give back the id, *)
(* name and status of every group.                                        *)
(***************************************************************************)
NoTitle == ""
NoId == ""

\* the files data/groups/ may hold: name without .md, title and status of the metadata
GroupFiles ==
    { [id |-> "ops", title |-> "Ops", status |-> "active"],
      [id |-> "ops", title |-> "Ops", status |-> "paused"],
      [id |-> "ops", title |-> NoTitle, status |-> "archived"],
      [id |-> "dev", title |-> "Dev", status |-> "active"],
      [id |-> "dev", title |-> NoTitle, status |-> "archived"] }

\* a directory has one file of a name
Corpora == {c \in SUBSET GroupFiles : \A x, y \in c : x.id = y.id => x = y}

\* the ids a caller may ask fetchGroups for; NoId is a call without params.id
AskedIds == {NoId, "ops", "OPS", "dev", "hr"}

\* s.toLowerCase(), on the names and ids of the model
ToLowerCase(s) ==
    CASE s \in {"Ops", "OPS"} -> "ops"
      [] s = "Dev" -> "dev"
      [] OTHER -> s

\* parseGroupFrontmatter(id, content)
ParseGroupFrontmatter(id, fm) ==
    [id |-> id,
     name |-> IF fm.title # NoTitle THEN fm.title ELSE id,
     status |-> IF fm.status = "active" THEN "active"
                ELSE IF fm.status = "archived" THEN "archived" ELSE "inactive"]

\* fetchFromGitHub(env): every .md file of data/groups/, parsed
FetchFromGitHub(files) == {ParseGroupFrontmatter(f.id, f) : f \in files}

\* fetchGroups(env, params): the cached list or, on a miss, the list of the source,
\* which is stored; then the groups of the id, or the active groups
FetchGroups(store, t, files, id) ==
    LET hit == KvLive(store, KeyGroups, t)
        groups == IF hit THEN store[KeyGroups].value ELSE FetchFromGitHub(files)
    IN  [result |-> IF id # NoId
                    THEN {g \in groups :
                             g.id = id \/ ToLowerCase(g.name) = ToLowerCase(id)}
                    ELSE {g \in groups : g.status = "active"},
         store |-> IF hit THEN store
                   ELSE KvPut(store, KeyGroups, groups, ReadTtl(KeyGroups), t),
         hit |-> hit]

MaxGroupsClock == 14400
GroupsClockStep == 3600

\* a caller (route /sb/groups, /sb/groups/:id or the MCP tool) calls fetchGroups
GroupsRead(id) ==
    /\ LET f == FetchGroups(cache, clock, corpus, id)
       IN  /\ cache' = f.store
           /\ groupRead' = [id |-> id, result |-> f.result, hit |-> f.hit]
    /\ UNCHANGED <<corpus, clock>>
    /\ UNCHANGED <<dbVars, mirror, runs, faults, touched, settled, solo, dangling,
                   parseTable, parsing, repo>>
    /\ UNCHANGED <<hookVars, cycle, fetched, lastRefresh, upstream, budget, readVars>>

\* refreshIfDue(env, 'sb:groups', TTL.groups, now, force, () => fetchGroups(env))
GroupsRefresh(force) ==
    /\ force \/ ~NotDueYet(cache, KeyGroups, TtlOf(KeyGroups), clock * 1000, clock)
    /\ LET f == FetchGroups(cache, clock, corpus, NoId)
           put == KvPut(f.store, KeyGroups, f.result, TtlOf(KeyGroups) * 2, clock)
       IN  cache' = KvPut(put, LastRunKey(KeyGroups), NumToString(clock * 1000),
                          TtlOf(KeyGroups) * 2, clock)
    /\ UNCHANGED <<corpus, groupRead, clock>>
    /\ UNCHANGED <<dbVars, mirror, runs, faults, touched, settled, solo, dangling,
                   parseTable, parsing, repo>>
    /\ UNCHANGED <<hookVars, cycle, fetched, lastRefresh, upstream, budget, readVars>>

\* an hour passes; KV drops the entries that have expired
GroupsTick ==
    /\ clock + GroupsClockStep <= MaxGroupsClock
    /\ clock' = clock + GroupsClockStep
    /\ cache' = KvPurge(cache, clock')
    /\ UNCHANGED <<corpus, groupRead>>
    /\ UNCHANGED <<dbVars, mirror, runs, faults, touched, settled, solo, dangling,
                   parseTable, parsing, repo>>
    /\ UNCHANGED <<hookVars, cycle, fetched, lastRefresh, upstream, budget, readVars>>

GroupsInit ==
    /\ SyncInit /\ HookInit /\ CacheInit /\ parsing = NotParsing
    /\ parseTable = ParseTableOn({})
    /\ corpus \in Corpora
    /\ groupRead = NoGroupRead

GroupsNext ==
    \/ \E id \in AskedIds : GroupsRead(id)
    \/ \E force \in BOOLEAN : GroupsRefresh(force)
    \/ GroupsTick

GroupsSpec == GroupsInit /\ [][GroupsNext]_vars

(***************************************************************************)
(* Properties                                                              *)
(***************************************************************************)
\* the handler's request carries a signature that verification has to refuse
BadSignature(h) ==
    LET s == handlers[h].signature
    IN  \/ s = NoHeader
        \/ ~StartsWith(s, Sha256Prefix)
        \/ s # SignedBy(WebhookSecret, handlers[h].body)

WithinDay(a, b) == a - b < NonceTtl /\ b - a < NonceTtl

\* C1: of the deliveries that carry one delivery id and arrive within 24 hours of each
\* other, at most one starts a pipeline run, and when two such correctly signed
\* deliveries have both been answered, one of the answers is 'duplicate'
C1_AtMostOnePerDelivery ==
    /\ \A x \in Rows(instances) :
          x.deliveryId # NoHeader =>
             SumCopies(instances, {y \in Rows(instances) :
                                      y.deliveryId = x.deliveryId /\ WithinDay(x.at, y.at)}) <= 1
    /\ \A g, h \in HandlerIds :
          (/\ g < h
           /\ handlers[g].pc = "done" /\ handlers[h].pc = "done"
           /\ ~BadSignature(g) /\ ~BadSignature(h)
           /\ handlers[g].deliveryId # NoHeader
           /\ handlers[g].deliveryId = handlers[h].deliveryId
           /\ WithinDay(handlers[g].at, handlers[h].at))
          => "duplicate" \in {handlers[g].response.outcome, handlers[h].response.outcome}

\* C2: a request whose signature header is missing, has no sha256= prefix or is not the
\* HMAC of the body is answered 403, and the step that answers it leaves the nonce
\* store, the started runs, the mirror and the graph store as they were
C2_BadSignatureNoEffect ==
    /\ [](\A h \in HandlerIds :
            (BadSignature(h) /\ handlers[h].pc \notin {"idle", "verify"})
               => (handlers[h].pc = "done" /\ handlers[h].response.status = 403))
    /\ [][\A h \in HandlerIds :
            (BadSignature(h) /\ handlers[h].pc # "idle" /\ handlers'[h] # handlers[h])
               => (/\ handlers'[h].response.status = 403
                   /\ UNCHANGED <<syncState, instances, mirror, dbVars>>)]_vars

C2_Witness ==
    \E h \in HandlerIds :
        /\ handlers[h].pc = "done"
        /\ handlers[h].response.status = 403
        /\ handlers[h].signature # NoHeader
        /\ ~StartsWith(handlers[h].signature, Sha256Prefix)

SyncSubSteps == {"put", "upsert", "domains", "rels"}

\* C3: when a sync-file step has failed and the run has ended, every other fetched path
\* has had its sync step and every deleted path its delete step
C3_SiblingsStillAttempted ==
    \A r \in RunIds :
        (runs[r].pc = "errored" /\ runs[r].sub \in SyncSubSteps)
           => (DOMAIN runs[r].files = {} /\ runs[r].deleted = {})

\* the rows of the documents the parser's slug and the mirror key tie to path p
SyncedFrom(docs, p) ==
    {row \in Rows(docs) : row.slug = ParserPathToSlug(p) /\ row.r2_key = R2Key(p)}

\* C4: when the delete step of a path p has completed, the mirror holds no object for p
\* and every document synced from p is retired
C4_DeletionRetires ==
    \A r \in RunIds :
        (runs[r].pc = "loop" /\ runs[r].err = "deleted")
           => (/\ R2Key(runs[r].cur) \notin DOMAIN mirror
               /\ \A row \in SyncedFrom(documents, runs[r].cur) : row.status = "retired")

\* C5: no step removes a document row or changes its slug or id, and the document of a
\* deleted path stays in the table with status retired, where the detail query by its
\* slug returns it
C5_DocumentsStay ==
    [][/\ \A row \in Rows(documents) :
             \E kept \in Rows(documents') : kept.slug = row.slug /\ kept.id = row.id
       /\ \A r \in RunIds :
             (runs[r].pc = "step" /\ runs[r].sub = "retire" /\ runs'[r].err = "deleted")
                => (/\ SyncedFrom(documents', runs[r].cur) # {}
                       <=> SyncedFrom(documents, runs[r].cur) # {}
                    /\ \A row \in SyncedFrom(documents', runs[r].cur) :
                          /\ row.status = "retired"
                          /\ row.type \in {"agreement", "policy"}
                                => DetailQuery(documents', row.slug, row.type) = {row})]_vars

\* the parsed record of the sync that settled the graph store
SettledDoc == parseTable[settled.path, settled.content]

SettledRows == {row \in Rows(documents) : row.slug = SettledDoc.slug}

OneSettledRow ==
    LET hit(row) == row.slug = SettledDoc.slug IN CountRows(documents, hit) = 1

\* C6: syncing a file again with the content of its last sync changes no document row,
\* no domain link and no relationship edge, and the slug has exactly one row
C6_ResyncIdempotent ==
    /\ [](settled.n >= 1 => OneSettledRow)
    /\ [][(/\ settled.n >= 1
           /\ settled'.n >= 1
           /\ settled'.path = settled.path
           /\ settled'.content = settled.content) => DbView' = DbView]_vars

C6_Witness ==
    /\ settled.n = 2
    /\ document_domains # EmptyBag
    /\ document_relationships # EmptyBag

\* C7: after a file has been synced with new metadata, the one row of its slug holds the
\* new type, title, status, dates, enactedBy and content location
C7_RowHoldsNewValues ==
    settled.n >= 1 =>
        /\ OneSettledRow
        /\ \A row \in SettledRows :
              /\ row.type = SettledDoc.type
              /\ row.title = SettledDoc.title
              /\ row.status = SettledDoc.status
              /\ row.effective_from = SettledDoc.effectiveFrom
              /\ row.effective_to = SettledDoc.effectiveTo
              /\ row.enacted_by = SettledDoc.enactedBy
              /\ row.r2_key = R2Key(settled.path)

\* the number of edges (from, type, to)
EdgeCount(from, type, to) ==
    LET hit(e) == e.from_id = from /\ e.relationship_type = type /\ e.to_id = to
    IN  CountRows(document_relationships, hit)

\* the authorized_by relationships of the settled document whose target has a row
SettledAuthorizations ==
    {<<row.id, target.id>> :
        row \in {x \in SettledRows : x.id = SettledDoc.id},
        target \in {t \in Rows(documents) :
                      \E n \in 1..Len(SettledDoc.relationships) :
                         /\ SettledDoc.relationships[n].type = "authorized_by"
                         /\ SettledDoc.relationships[n].targetSlug = t.slug}}

\* C8: once a document that declares authorized_by a stored document has been synced,
\* there is exactly one edge for the declaration, and syncing it again raises no
\* constraint error and leaves the edges as they were
C8_ExactlyOneEdge ==
    /\ [](settled.n >= 1 =>
             \A pair \in SettledAuthorizations :
                EdgeCount(pair[1], "authorized_by", pair[2]) = 1)
    /\ [][\A r \in RunIds :
             (/\ settled.n >= 1
              /\ runs[r].pc = "step"
              /\ runs[r].sub \in SyncSubSteps
              /\ runs[r].cur = settled.path
              /\ runs[r].content = settled.content)
                => (/\ runs'[r].err # "constraint"
                    /\ document_relationships' = document_relationships)]_vars

C8_Witness ==
    /\ settled.n = 2
    /\ SettledAuthorizations # {}
    /\ \A pair \in SettledAuthorizations : EdgeCount(pair[1], "authorized_by", pair[2]) = 1

\* the edge e is one the relationship loop of record d makes from the rows of docs
Declares(d, docs, e) ==
    /\ e.from_id = d.id
    /\ \E n \in 1..Len(d.relationships) :
          /\ d.relationships[n].type = e.relationship_type
          /\ \E t \in Rows(docs) :
                t.slug = d.relationships[n].targetSlug /\ t.id = e.to_id

\* C9: an edge appears only in the relationship loop of a sync of the declaring
\* document, and only to a target that has a row at that moment; a declaration whose
\* target has no row does not fail the step; after a completed sync every declaration
\* of a known type whose target has a row has its edge
C9_EdgesOnlyFromDeclaringSync ==
    /\ [][\A e \in Rows(document_relationships') \ Rows(document_relationships) :
             \E r \in RunIds :
                /\ runs[r].pc = "step" /\ runs[r].sub = "rels"
                /\ Declares(Parsed(r), documents, e)]_vars
    /\ [][\A r \in RunIds :
             (/\ runs[r].pc = "step" /\ runs[r].sub = "rels"
              /\ runs'[r].err = "constraint")
                => \E n \in 1..Len(Parsed(r).relationships) :
                      \E t \in Rows(documents) :
                         t.slug = Parsed(r).relationships[n].targetSlug]_vars
    /\ [](settled.n >= 1 =>
             \A n \in 1..Len(SettledDoc.relationships) :
                \A t \in Rows(documents) :
                   (/\ SettledDoc.relationships[n].type \in RelationshipTypes
                    /\ SettledDoc.relationships[n].targetSlug = t.slug)
                      => EdgeCount(SettledDoc.id, SettledDoc.relationships[n].type,
                                   t.id) >= 1)

\* a relationship that was skipped for want of its target has its edge now
C9_Witness ==
    \E x \in dangling :
        \E t \in Rows(documents) :
            t.slug = x.target /\ EdgeCount(x.from, x.type, t.id) = 1

\* the key had no last-refresh record, or its TTL had passed, when the cycle started
DueAtStart(k) == cycle.seen[k] = -1 \/ clock - cycle.seen[k] >= TtlOf(k)

\* C10: in a cycle that is not forced, the fetcher of a key runs only if the key was due
\* at the start, and it has run for every due key once the key's refresh is through;
\* with a TTL of 900 s it does not run 500 s after the last refresh and runs 901 s
\* after it
C10_FetchedIffDue ==
    (cycle.active /\ ~cycle.force) =>
        \A k \in TrackedKeys :
            /\ k \in fetched => DueAtStart(k)
            /\ cycle.pc[k] = "done" => (k \in fetched <=> DueAtStart(k))
            /\ (TtlOf(k) = 900 /\ cycle.seen[k] >= 0 /\ clock - cycle.seen[k] = 500)
                  => k \notin fetched
            /\ (TtlOf(k) = 900 /\ cycle.seen[k] >= 0 /\ clock - cycle.seen[k] = 901
                /\ cycle.pc[k] = "done") => k \in fetched

C10_Witness ==
    /\ cycle.active /\ ~cycle.force
    /\ cycle.pc[KeyProposals] = "done" /\ cycle.pc[KeyMembers] = "done"
    /\ lastRefresh[KeyProposals] = clock
    /\ clock - cycle.seen[KeyProposals] = 901
    /\ KeyProposals \in fetched
    /\ cycle.seen[KeyMembers] >= 0
    /\ KeyMembers \notin fetched


\* what a fetcher makes of the answer of the key's source now
SourceNow(k) ==
    LET v == SourceValue(k, upstream, hatsTree)
    IN  IF v = NoTree THEN EmptyList ELSE v

\* C11: when a cycle has refreshed a key (its fetcher returned and its value was put),
\* the value under the key is the value the key's source serves at the time of the
\* cycle, also when an earlier value of the key was still in the cache
C11_RefreshStoresSourceValue ==
    \A k \in TrackedKeys :
        (cycle.active /\ cycle.pc[k] = "mark") => cache[k].value = SourceNow(k)

\* the refresh of key k in the current cycle is through and nothing threw in it
Refreshed(k) == cycle.pc[k] = "done" /\ k \notin cycle.threw

\* the value and the last-refresh record of k are the ones this cycle has written
Rewritten(k) ==
    /\ KvLive(cache, k, clock)
    /\ cache[k] = [value |-> cycle.value[k], expiration |-> clock + TtlOf(k) * 2]
    /\ KvLive(cache, LastRunKey(k), clock)
    /\ cache[LastRunKey(k)] =
          [value |-> NumToString(cycle.now), expiration |-> clock + TtlOf(k) * 2]
    /\ lastRefresh[k] = clock

\* C12: in a forced cycle no key passes through the last-refresh gate; the fetcher of
\* every tracked key runs, and when nothing threw for a key its value and its
\* last-refresh record are rewritten, whatever the last-refresh time was
C12_ForceRefreshesEveryKey ==
    (cycle.active /\ cycle.force) =>
        \A k \in TrackedKeys :
            /\ cycle.pc[k] \notin {"check", "failed"}
            /\ cycle.pc[k] \in {"put", "mark", "done"} => k \in fetched
            /\ Refreshed(k) => Rewritten(k)

\* a forced cycle has rewritten a key that was refreshed 401 s earlier and was not due
C12_Witness ==
    /\ cycle.active /\ cycle.force
    /\ \A k \in TrackedKeys : Refreshed(k) /\ Rewritten(k)
    /\ cycle.seen[KeyGroups] >= 0
    /\ clock - cycle.seen[KeyGroups] = 401

\* the refresh of key k has a step to take
CanStep(k) ==
    \/ ENABLED CheckDue(k)
    \/ ENABLED Fetch(k)
    \/ ENABLED PutValue(k)
    \/ ENABLED PutLastRun(k)

\* C13: a step in which the refresh of one key fails changes the progress of no other
\* key and does not end the cycle; while a cycle runs, either some key has a step to
\* take or the cycle can return; and when all calls have settled, every key that was
\* due (or forced) and did not fail itself has been fetched and rewritten
C13_FailureIsolated ==
    /\ [][\A k \in TrackedKeys :
             (cycle.active /\ k \in cycle'.threw \ cycle.threw)
                => (/\ cycle'.active
                    /\ \A j \in TrackedKeys \ {k} :
                          /\ cycle'.pc[j] = cycle.pc[j]
                          /\ cycle'.value[j] = cycle.value[j])]_vars
    /\ [](cycle.active =>
             \/ \E k \in TrackedKeys : ~(cycle.pc[k] \in {"done", "failed"}) /\ CanStep(k)
             \/ Settled(cycle) /\ ENABLED EndCycle)
    /\ []((cycle.active /\ Settled(cycle)) =>
             \A j \in TrackedKeys \ cycle.threw :
                (cycle.force \/ DueAtStart(j)) => (j \in fetched /\ Rewritten(j)))

\* the fetcher of one key threw in a cycle that has settled, and another key was
\* refreshed in that cycle
C13_Witness ==
    /\ cycle.active /\ Settled(cycle)
    /\ KeyProposals \in cycle.threw
    /\ KeyProposals \in fetched
    /\ KeyRoles \in fetched /\ Rewritten(KeyRoles)
    /\ KeyMembers \in fetched /\ Rewritten(KeyMembers)

\* the step is a call of a cached read path
IsRead == budget'.reads = budget.reads + 1

\* the value the read path of key k returns when called now
Constituent(k) == IF KvLive(cache, k, clock) THEN cache[k].value ELSE SourceNow(k)

\* C14: when a forced refresh has returned, the key daoip2:dao is absent; a call of
\* getDaoDescriptor that finds it absent builds the descriptor from the members and
\* proposals cached at that moment (from the source where one is not cached), stores
\* it under daoip2:dao and returns it
C14_ForceInvalidatesDescriptor ==
    /\ [][budget'.cycles = budget.cycles + 1 => KeyDao \notin DOMAIN cache']_vars
    /\ [][(IsRead /\ lastRead'.key = KeyDao /\ ~KvLive(cache, KeyDao, clock))
             => (/\ ~lastRead'.hit
                 /\ lastRead'.value[1].members = Constituent(KeyMembers)
                 /\ lastRead'.value[1].proposals = Constituent(KeyProposals)
                 /\ KvLive(cache', KeyDao, clock)
                 /\ cache'[KeyDao].value = lastRead'.value[1])]_vars

\* after a forced refresh that fetched version 2 of the members, getDaoDescriptor has
\* rebuilt the descriptor from them
C14_Witness ==
    /\ budget.cycles >= 1
    /\ lastRead.key = KeyDao /\ ~lastRead.hit
    /\ budget.reads = 2
    /\ KvLive(cache, KeyDao, clock)
    /\ KvLive(cache, KeyMembers, clock)
    /\ lastRefresh[KeyMembers] = clock
    /\ cache[KeyMembers].value = 2
    /\ cache[KeyDao].value.members = 2

\* the expirationTtl a read path puts its key with
PathTtl(k) == IF k = KeyDao THEN TTL.members ELSE ReadTtl(k)

\* the read that the step makes is a hit that returns the cached value
ReadHit ==
    LET k == lastRead'.key
    IN  /\ lastRead'.hit
        /\ lastRead'.value = <<cache[k].value>>
        /\ ~lastRead'.contacted
        /\ cache' = cache

\* the read that the step makes is a miss that stores what it returns
ReadMissStored ==
    LET k == lastRead'.key
    IN  /\ ~lastRead'.hit
        /\ k \in TrackedKeys => lastRead'.value = <<SourceNow(k)>>
        /\ KvLive(cache', k, clock)
        /\ cache'[k] = [value |-> lastRead'.value[1], expiration |-> clock + PathTtl(k)]

\* the read that the step makes is fetchRoles finding no tree at the source
ReadMissNoTree ==
    /\ lastRead'.key = KeyRoles
    /\ ~hatsTree
    /\ ~lastRead'.hit
    /\ lastRead'.value = <<EmptyList>>
    /\ cache' = cache

Fetched(r) == runs[r].pc \in {"loop", "step", "failed"} /\ runs[r].sub # "fetch"

\* both loops of the run are through
LoopsThrough(r) ==
    runs[r].pc = "loop" /\ DOMAIN runs[r].files = {} /\ runs[r].deleted = {}

EmptyStores ==
    [ok |-> TRUE, mirror |-> [k \in {} |-> [content |-> NoContent, commitSha |-> ""]],
     docs |-> EmptyBag, links |-> EmptyBag, edges |-> EmptyBag]

\* the step sync-file:path run to its end on the stores st
SyncFileOn(st, path, content, sha) ==
    LET d == parseTable[path, content]
        put == [st EXCEPT !.mirror = PutObject(st.mirror, path, content, sha)]
        doc == UpsertDocumentRow(st.docs, d, R2Key(path))
        lnk == UpsertDomainLinks(doc.docs, domains, st.links, d, Len(d.domains))
        rel == UpsertRelationships(doc.docs, st.edges, d, Len(d.relationships))
    IN  IF ~st.ok THEN st
        ELSE IF d.kind = "null" THEN put
        ELSE IF d.kind = "throw" THEN [put EXCEPT !.ok = FALSE]
        ELSE IF ~doc.ok THEN [put EXCEPT !.ok = FALSE]
        ELSE [ok |-> lnk.ok /\ rel.ok, mirror |-> put.mirror, docs |-> doc.docs,
              links |-> lnk.links, edges |-> rel.edges]

\* the step delete-file:path run to its end on the stores st
DeleteFileOn(st, path) ==
    IF ~st.ok THEN st
    ELSE [st EXCEPT !.mirror = DeleteObject(st.mirror, path),
                    !.docs = RetireDocument(st.docs, path)]

\* the sync-file steps of files in the given order, from position n on
RECURSIVE SyncAllOn(_, _, _, _, _)
SyncAllOn(st, order, n, files, sha) ==
    IF n > Len(order) THEN st
    ELSE SyncAllOn(SyncFileOn(st, order[n], files[order[n]], sha), order, n + 1,
                   files, sha)

RECURSIVE DeleteAllOn(_, _, _)
DeleteAllOn(st, order, n) ==
    IF n > Len(order) THEN st
    ELSE DeleteAllOn(DeleteFileOn(st, order[n]), order, n + 1)

\* the orders in which a loop may visit the elements of S
Orders(S) == {o \in [1..Cardinality(S) -> S] : \A x \in S : \E i \in DOMAIN o : o[i] = x}

\* the stores one run without failure leaves when started on the empty stores
UninterruptedOutcomes(files, deleted, sha) ==
    {o \in {DeleteAllOn(SyncAllOn(EmptyStores, fo, 1, files, sha), do, 1) :
               fo \in Orders(DOMAIN files), do \in Orders(deleted)} : o.ok}

DeclaredIn(files, e) ==
    \E p \in DOMAIN files :
        /\ parseTable[p, files[p]].kind = "doc"
        /\ Declares(parseTable[p, files[p]], documents, e)

PushOf(sha) == PushBodies[CHOOSE b \in 1..Len(PushBodies) : PushBodies[b].after = sha]

\* the request of handler h is a correctly signed push event that was not answered as
\* a duplicate
AcceptedPush(h) ==
    /\ handlers[h].pc = "done"
    /\ ~BadSignature(h)
    /\ handlers[h].body # MalformedBody
    /\ handlers[h].response.outcome # "duplicate"

\* C16: a correctly signed push that is not a duplicate and whose ref is not
\* refs/heads/main is answered 'ignored'; no run is ever submitted for such a push,
\* and the step that answers it leaves the runs, the mirror and the graph store alone
C16_OtherBranchIgnored ==
    /\ [](\A h \in HandlerIds :
            (AcceptedPush(h) /\ PushBodies[handlers[h].body].ref # "refs/heads/main")
               => (/\ handlers[h].response.status = 200
                   /\ handlers[h].response.outcome = "ignored"))
    /\ [](\A x \in Rows(instances) : PushOf(x.commitSha).ref = "refs/heads/main")
    /\ [][\A h \in HandlerIds :
            (/\ handlers[h].pc = "parse"
             /\ handlers[h].body # MalformedBody
             /\ PushBodies[handlers[h].body].ref # "refs/heads/main"
             /\ handlers'[h] # handlers[h])
               => UNCHANGED <<instances, runs, mirror, dbVars>>]_vars

\* a push to refs/heads/dev with a delivery id and the right signature was ignored
C16_Witness ==
    \E h \in HandlerIds :
        /\ AcceptedPush(h)
        /\ PushBodies[handlers[h].body].ref = "refs/heads/dev"
        /\ handlers[h].deliveryId # NoHeader
        /\ KvLive(syncState, NonceKey(handlers[h].deliveryId), hookClock)
        /\ handlers[h].response.outcome = "ignored"

\* the paths the commits of a push name as added or modified, and as removed
NamedChanged(payload) ==
    UNION {Range(payload.commits[i].added) \cup Range(payload.commits[i].modified) :
              i \in 1..Len(payload.commits)}
NamedRemoved(payload) ==
    UNION {Range(payload.commits[i].removed) : i \in 1..Len(payload.commits)}

IsMarkdown(p) == Len(p) >= 1 /\ p[Len(p)] = ".md"
NoRepeats(s) == \A i, j \in 1..Len(s) : s[i] = s[j] => i = j

\* C17: the changed and deleted lists of every submitted run hold exactly the paths
\* ending in .md that the commits of the push name as added or modified, respectively
\* as removed, each once, and not both lists are empty; a push to main that names no
\* such path is answered 'ignored'
C17_MarkdownOnceEach ==
    /\ \A x \in Rows(instances) :
          /\ Range(x.changedFiles) = {p \in NamedChanged(PushOf(x.commitSha)) : IsMarkdown(p)}
          /\ Range(x.deletedFiles) = {p \in NamedRemoved(PushOf(x.commitSha)) : IsMarkdown(p)}
          /\ NoRepeats(x.changedFiles)
          /\ NoRepeats(x.deletedFiles)
          /\ x.changedFiles # <<>> \/ x.deletedFiles # <<>>
    /\ \A h \in HandlerIds :
          (/\ AcceptedPush(h)
           /\ PushBodies[handlers[h].body].ref = "refs/heads/main"
           /\ ~\E p \in NamedChanged(PushBodies[handlers[h].body])
                     \cup NamedRemoved(PushBodies[handlers[h].body]) : IsMarkdown(p))
             => handlers[h].response.outcome = "ignored"

\* a run was submitted for the push whose two commits both name agreements/a.md and
\* policies/b.md, and the push that names only README.txt and old.md.bak was ignored
C17_Witness ==
    /\ \E x \in Rows(instances) :
          /\ x.changedFiles = <<PathA>>
          /\ x.deletedFiles = <<PathB>>
    /\ \E h \in HandlerIds :
          /\ AcceptedPush(h)
          /\ PushBodies[handlers[h].body].after = "sha3"
          /\ handlers[h].response.outcome = "ignored"

\* C18: the step in which a handler answers 'ok' is the step that submits the run: it
\* adds exactly one run, for the delivery of the request, and answers 200 with the
\* lengths of that run's changed and deleted lists, while no step of a run is taken;
\* and runs are submitted by such steps only
C18_OneRunCountsMatch ==
    /\ [][\A h \in HandlerIds :
            (handlers[h].pc = "parse" /\ handlers'[h].response.outcome = "ok")
               => (/\ handlers'[h].pc = "done"
                   /\ handlers'[h].response.status = 200
                   /\ runs' = runs
                   /\ \E x \in Rows(instances') :
                         /\ instances' = InsertRow(instances, x)
                         /\ x.deliveryId = handlers[h].deliveryId
                         /\ x.commitSha = PushBodies[handlers[h].body].after
                         /\ handlers'[h].response.changed = Len(x.changedFiles)
                         /\ handlers'[h].response.deleted = Len(x.deletedFiles)
                         /\ NoRepeats(x.changedFiles) /\ NoRepeats(x.deletedFiles))]_vars
    /\ [][instances' # instances =>
             \E h \in HandlerIds :
                handlers[h].pc = "parse" /\ handlers'[h].response.outcome = "ok"]_vars
    /\ [](\A h \in HandlerIds :
             (handlers[h].pc = "done" /\ handlers[h].response.outcome = "ok")
                => \E x \in Rows(instances) :
                      /\ x.at = handlers[h].at /\ x.deliveryId = handlers[h].deliveryId
                      /\ handlers[h].response.changed = Cardinality(Range(x.changedFiles))
                      /\ handlers[h].response.deleted = Cardinality(Range(x.deletedFiles)))

\* a push was accepted with one changed and one deleted path and its run is submitted
C18_Witness ==
    \E h \in HandlerIds :
        /\ handlers[h].pc = "done"
        /\ handlers[h].response = [status |-> 200, outcome |-> "ok", changed |-> 1,
                                   deleted |-> 1]
        /\ BagCardinality(instances) = 1
        /\ \A r \in RunIds : runs[r].pc = "idle"

\* the text does not begin with a metadata block: its first line is not the fence, or
\* no later line is
NoLeadingBlock(content) ==
    \/ content = <<>>
    \/ content[1] # <<"---">>
    \/ \A j \in 2..Len(content) : content[j] # <<"---">>

\* the text begins with a metadata block whose only line is a title
TitleOnly(content) ==
    /\ Len(content) >= 3
    /\ content[1] = <<"---">>
    /\ content[2] = <<"title", ":", " ", "Charter">>
    /\ content[3] = <<"---">>

\* C21: a call of the parser that has ended has not thrown; it has returned null when
\* the text has no leading metadata block; and for a path that is not excluded and a
\* block that holds only a title it has returned a record with status draft, type
\* other and empty domain, relationship and scope lists
C21_ParserTotal ==
    parsing.out # <<>> =>
        LET out == parsing.out[1]
        IN  /\ out.kind # "throw"
            /\ NoLeadingBlock(parsing.content) => out.kind = "null"
            /\ (parsing.path = <<"agreements", "/", "a", ".md">> /\ TitleOnly(parsing.content))
                  => /\ out.kind = "doc"
                     /\ out.status = "draft" /\ out.type = "other"
                     /\ out.domains = <<>> /\ out.relationships = <<>> /\ out.scope = <<>>

\* run r has synced agreements/operating-agreement.md and is through its loops
SyncedOperating(r) ==
    /\ LoopsThrough(r)
    /\ <<"agreements", "/", "operating", "-", "agreement", ".md">> \in DOMAIN runs[r].got

\* C22: after the sync of agreements/operating-agreement.md with type agreement, status
\* active, domain dao-core and the relationship authorized_by -> charter there is one
\* row with slug operating-agreement, of type agreement and status active, one domain
\* link, from it to dao-core, and one relationship edge, from it to charter, typed
\* authorized_by
C22_OperatingAgreementSynced ==
    \A r \in RunIds :
        SyncedOperating(r) =>
            \E row \in Rows(documents) :
                /\ row.slug = <<"operating", "-", "agreement">>
                /\ row.type = "agreement" /\ row.status = "active"
                /\ documents[row] = 1
                /\ \A other \in Rows(documents) :
                      other.slug \in {row.slug, <<"charter">>}
                /\ document_domains =
                      SetToBag({[document_id |-> row.id, domain_id |-> "dom-dao-core"]})
                /\ \E e \in Rows(document_relationships) :
                      /\ document_relationships = SetToBag({e})
                      /\ e.from_id = row.id /\ e.to_id = <<"charter">>
                      /\ e.relationship_type = "authorized_by"

\* C23: every stored relationship edge has one of the six types of the vocabulary
C23_EdgeTypesClosed ==
    \A e \in Rows(document_relationships) :
        e.relationship_type \in {"authorized_by", "implements", "supersedes",
                                 "references", "evaluates", "fulfills"}

\* policies/b.md, which declares 'mentions: b', has been synced through while its own
\* row, the target of that relationship, was there
C23_Witness ==
    \E r \in RunIds :
        /\ LoopsThrough(r)
        /\ <<"policies", "/", "b", ".md">> \in DOMAIN runs[r].got
        /\ \E n \in 1..Len(parseTable[PathB, runs[r].got[PathB]].relationships) :
              parseTable[PathB, runs[r].got[PathB]].relationships[n] =
                  [type |-> "mentions", targetSlug |-> <<"b">>]
        /\ \E row \in Rows(documents) : row.slug = <<"b">>
        /\ document_relationships # EmptyBag

HasRowWithId(id) == \E row \in Rows(documents) : row.id = id

\* C25: both ends of every relationship edge and the document of every domain link
\* are ids of rows of documents
C25_EndpointsExist ==
    /\ \A e \in Rows(document_relationships) :
          HasRowWithId(e.from_id) /\ HasRowWithId(e.to_id)
    /\ \A l \in Rows(document_domains) : HasRowWithId(l.document_id)

\* agreements/a.md was inserted with id a and is synced again with the metadata id b,
\* for which there is no row: the statement that would link b to a domain has failed
C25_Witness ==
    \E r \in RunIds :
        /\ runs[r].pc = "failed" /\ runs[r].err = "constraint" /\ runs[r].sub = "domains"
        /\ runs[r].cur = <<"agreements", "/", "a", ".md">>
        /\ parseTable[runs[r].cur, runs[r].content].id = <<"b">>
        /\ \E row \in Rows(documents) : row.slug = <<"a">> /\ row.id = <<"a">>
        /\ ~HasRowWithId(<<"b">>)
        /\ document_domains # EmptyBag

\* the document declares a domain slug that is in the seeded table
DeclaresSeeded(d) ==
    \E n \in 1..Len(d.domains) : \E m \in SeedDomains : m.slug = d.domains[n]

\* C26: the domains table stays as seeded; the domain loop of a sync step creates
\* links to seeded domains the document declares and nothing else, and when the
\* document declares only slugs that are not in the table the loop creates no link
\* and the step goes on to the relationships
C26_UnknownDomainSkipped ==
    /\ [](domains = SeedDomains)
    /\ [][\A r \in RunIds :
            (/\ runs[r].pc = "step" /\ runs[r].sub = "domains"
             /\ runs'[r] # runs[r] /\ runs'[r].err # "fault")
               => /\ \A l \in Rows(document_domains') :
                        \/ l \in Rows(document_domains)
                        \/ \E m \in SeedDomains :
                              /\ l.domain_id = m.id
                              /\ \E n \in 1..Len(Parsed(r).domains) :
                                    Parsed(r).domains[n] = m.slug
                  /\ ~DeclaresSeeded(Parsed(r))
                        => /\ runs'[r].pc = "step" /\ runs'[r].sub = "rels"
                           /\ document_domains' = document_domains]_vars

\* policies/b.md, whose only domain is 'unknown', has been synced through: its row is
\* there and no domain link names it
C26_Witness ==
    \E r \in RunIds :
        /\ LoopsThrough(r)
        /\ <<"policies", "/", "b", ".md">> \in DOMAIN runs[r].got
        /\ parseTable[PathB, runs[r].got[PathB]].domains = << <<"unknown">> >>
        /\ \E row \in Rows(documents) :
              /\ row.slug = <<"b">>
              /\ \A l \in Rows(document_domains) : l.document_id # row.id

\* C27: a sync step comes to its graph upsert only through the step that stores the
\* mirror object of its file; a step that writes a row while a sync step is at its
\* upsert writes rows whose contentLocation holds that object; and a mirror write that
\* fails leaves the rows as they are, the step starting again with the mirror write
C27_MirrorBeforeUpsert ==
    /\ [][\A r \in RunIds :
            (runs'[r].sub = "upsert" /\ runs[r].sub # "upsert")
               => /\ runs[r].pc = "step" /\ runs[r].sub = "put"
                  /\ R2Key(runs[r].cur) \in DOMAIN mirror'
                  /\ mirror'[R2Key(runs[r].cur)].content = runs[r].content]_vars
    /\ [][\A r \in RunIds :
            (runs[r].pc = "step" /\ runs[r].sub = "upsert" /\ documents' # documents)
               => \A row \in Rows(documents') \ Rows(documents) :
                     /\ row.r2_key = R2Key(runs[r].cur)
                     /\ row.r2_key \in DOMAIN mirror
                     /\ mirror[row.r2_key].content = runs[r].content]_vars
    /\ [][documents' # documents =>
            \E r \in RunIds :
               runs[r].pc = "step" /\ runs[r].sub \in {"upsert", "retire"}]_vars
    /\ [][\A r \in RunIds :
            (runs[r].sub = "put" /\ runs'[r] # runs[r])
               => /\ documents' = documents
                  /\ runs'[r].sub \in {"put", "upsert"}]_vars

\* the row of one file is written, with its object in the mirror, and the mirror
\* write of the next file has failed: there is still one row
C27_Witness ==
    \E r \in RunIds :
        /\ runs[r].pc = "failed" /\ runs[r].sub = "put" /\ runs[r].err = "fault"
        /\ R2Key(runs[r].cur) \notin DOMAIN mirror
        /\ \E row \in Rows(documents) :
              /\ documents = SetToBag({row})
              /\ row.r2_key \in DOMAIN mirror
              /\ row.r2_key # R2Key(runs[r].cur)

\* C28: when the first run, on a store without documents, has synced two files and is
\* through its loops, every relationship of the vocabulary that one of the two declares
\* to the other is stored as an edge
C28_SamePushEdgeResolved ==
    (LoopsThrough(1) /\ ~runs[1].redo) =>
        \A p, q \in DOMAIN runs[1].got :
            LET b == parseTable[p, runs[1].got[p]]
                a == parseTable[q, runs[1].got[q]]
            IN  (p # q /\ b.kind = "doc" /\ a.kind = "doc") =>
                    \A n \in 1..Len(b.relationships) :
                        (/\ b.relationships[n].targetSlug = a.slug
                         /\ b.relationships[n].type \in RelationshipTypes)
                           => \E e \in Rows(document_relationships) :
                                 /\ e.from_id = b.id /\ e.to_id = a.id
                                 /\ e.relationship_type = b.relationships[n].type

\* a cycle that started now would find the key due: there is no last-refresh record,
\* or the key's interval has passed since it
DueNow(k) == lastRefresh[k] = -1 \/ clock - lastRefresh[k] >= TtlOf(k)

\* the step in which the fetcher of key k throws
FetcherThrows(k) ==
    cycle.active /\ cycle.pc[k] = "fetch" /\ cycle'.pc[k] = "done"

\* the step in which a cycle that is not forced decides about key k
Decides(k) ==
    /\ cycle.active /\ ~cycle.force
    /\ cycle.pc[k] = "check" /\ cycle'.pc[k] \in {"done", "fetch"}

\* C30 as stated: the step in which the fetcher of a key throws leaves the store as
\* it is; from then on, until the key is fetched again, the key is due whenever no
\* cycle is running, and the next cycle that is not forced goes on to its fetcher
C30_FailedKeyStaysDue ==
    /\ [][\A k \in TrackedKeys : FetcherThrows(k) =>
            (cache' = cache /\ lastRefresh' = lastRefresh)]_vars
    /\ [](\A k \in TrackedKeys : (~cycle.active /\ cycle.lost[k] # "-") => DueNow(k))
    /\ [][\A k \in TrackedKeys : (Decides(k) /\ cycle.lost[k] # "-") =>
            cycle'.pc[k] = "fetch"]_vars

\* C30: the step in which the fetcher of a key throws leaves the store as it is; a key
\* that was due when its fetcher threw is due whenever no cycle is running, until it
\* is fetched again, and the next cycle that is not forced goes on to its fetcher; a
\* key a forced refresh attempted before its interval had passed keeps the
\* last-refresh record it had
C30_FailedKeySameBacklog ==
    /\ [][\A k \in TrackedKeys : FetcherThrows(k) =>
            (cache' = cache /\ lastRefresh' = lastRefresh)]_vars
    /\ [](\A k \in TrackedKeys : (~cycle.active /\ cycle.lost[k] = "due") => DueNow(k))
    /\ [][\A k \in TrackedKeys : (Decides(k) /\ cycle.lost[k] = "due") =>
            cycle'.pc[k] = "fetch"]_vars
    /\ [](\A k \in TrackedKeys :
            (cycle.lost[k] = "early" /\ cycle.pc[k] = "done" /\ cycle.force)
               => (\/ lastRefresh[k] = cycle.seen[k]
                   \/ lastRefresh[k] = -1))

\* the fetcher of a key threw in the first cycle, and the second cycle, started less
\* than the key's interval later and not forced, has gone on to the key's fetcher
C30_Witness ==
    \E k \in TrackedKeys :
        /\ budget.cycles = 2 /\ cycle.active /\ ~cycle.force
        /\ clock < TtlOf(k)
        /\ cycle.lost[k] = "due"
        /\ cycle.pc[k] = "fetch"

\* the stores one run without failure may leave when it starts on the stores st
RunOutcomes(st, files, deleted, sha) ==
    {DeleteAllOn(SyncAllOn(st, fo, 1, files, sha), do, 1) :
        fo \in Orders(DOMAIN files), do \in Orders(deleted)}

\* the stores the two runs may leave when one runs after the other has ended
SerialOutcomes ==
    LET after(a, b) ==
            UNION {RunOutcomes(o, runs[b].got, runs[b].gone, runs[b].commitSha) :
                      o \in RunOutcomes(EmptyStores, runs[a].got, runs[a].gone,
                                        runs[a].commitSha)}
    IN  {o \in after(1, 2) \cup after(2, 1) : o.ok}

\* C24: when two runs that touch the same path are both through their loops, the rows
\* of documents and the objects of the mirror are those one of the two serial
\* executions leaves
C24_SerialisableRowAndObject ==
    (/\ LoopsThrough(1) /\ LoopsThrough(2)
     /\ (DOMAIN runs[1].got \cup runs[1].gone) \cap (DOMAIN runs[2].got \cup runs[2].gone)
           # {})
       => \E o \in SerialOutcomes : mirror = o.mirror /\ documents = o.docs

\* C29: every mirror object of agreements/a.md holds the content the file has at the
\* commit the object is tagged with
C29_ObjectMatchesCommit ==
    LET k == <<"governance", "/", "agreements", "/", "a", ".md">>
    IN  k \in DOMAIN mirror =>
            \E n \in 1..Len(repo) :
                /\ repo[n].sha = mirror[k].commitSha
                /\ repo[n].content = mirror[k].content

\* run r is at the INSERT ... ON CONFLICT(slug) statement of a parsed record that binds
SlugUpsert(r) ==
    /\ runs[r].pc = "step" /\ runs[r].sub = "upsert"
    /\ Parsed(r).kind = "doc"
    /\ ~BindFails(Parsed(r))

\* C31: slug is the only conflict key of the Document upsert: the statement inserts a
\* row when no row has the record's slug and updates that row otherwise, it never
\* fails on a uniqueness conflict, and the rows of documents always have pairwise
\* distinct slugs and pairwise distinct ids
C31_SlugOnlyConflictKey ==
    /\ [][\A r \in RunIds :
            (SlugUpsert(r) /\ runs'[r] # runs[r] /\ runs'[r].err # "fault")
               => /\ runs'[r].pc = "step" /\ runs'[r].sub = "domains"
                  /\ IF \E row \in Rows(documents) : row.slug = Parsed(r).slug
                     THEN /\ {row.slug : row \in Rows(documents')} =
                                {row.slug : row \in Rows(documents)}
                          /\ \E row \in Rows(documents') :
                                /\ row.slug = Parsed(r).slug
                                /\ row.title = Parsed(r).title
                                /\ row.status = Parsed(r).status
                                /\ row.r2_key = R2Key(runs[r].cur)
                     ELSE documents' =
                             InsertRow(documents, DocRow(Parsed(r), R2Key(runs[r].cur)))]_vars
    /\ [](\A x, y \in Rows(documents) :
             /\ documents[x] = 1
             /\ (x.slug = y.slug \/ x.id = y.id) => x = y)

\* the paths of run r's payload that are in both changedFiles and deletedFiles and
\* not under proposals/
BothChangedAndDeleted(r) ==
    {path \in runs[r].asked \cap runs[r].gone : path[1] # "proposals"}

\* run r has started its delete-file loop
DeleteLoopStarted(r) ==
    \/ runs[r].deleted # runs[r].gone
    \/ runs[r].pc \in {"step", "failed"} /\ runs[r].sub \in {"r2del", "retire"}

\* C32: in a run every sync-file step is completed before the first delete-file step
\* starts, so when the loops of a run are through, a path outside proposals/ that is in
\* both the changed and the deleted set has no mirror object and every row of its slug
\* is retired, whether or not the source still served the file
C32_DeleteAfterSync ==
    \A r \in RunIds :
        /\ DeleteLoopStarted(r) =>
              /\ DOMAIN runs[r].files = {}
              /\ runs[r].changed = {}
              /\ runs[r].sub \notin {"put", "upsert", "domains", "rels"}
        /\ LoopsThrough(r) =>
              \A path \in BothChangedAndDeleted(r) :
                  /\ R2Key(path) \notin DOMAIN mirror
                  /\ \A row \in Rows(documents) :
                        row.slug = WorkflowPathToSlug(path) => row.status = "retired"

\* agreements/a.md is in both sets of a run, the source served it (the file was added
\* again after its removal), its sync step has stored row a, and the loops are through
\* with the row retired and the object gone
C32_Witness ==
    \E r \in RunIds :
        /\ LoopsThrough(r)
        /\ <<"agreements", "/", "a", ".md">> \in BothChangedAndDeleted(r)
        /\ <<"agreements", "/", "a", ".md">> \in DOMAIN runs[r].got
        /\ r = 1
        /\ \E row \in Rows(documents) : row.slug = <<"a">> /\ row.status = "retired"
        /\ R2Key(<<"agreements", "/", "a", ".md">>) \notin DOMAIN mirror

\* every row of the table before the step is a row of the table after it
Keeps(before, after) ==
    \A row \in Rows(before) : row \in Rows(after) /\ after[row] >= before[row]

\* C33: relationship edges and domain links only grow: no step of the pipeline removes
\* an edge or a link, neither the re-sync of a file that no longer declares it nor the
\* retirement of a document
C33_EdgesAndLinksOnlyGrow ==
    [][/\ Keeps(document_relationships, document_relationships')
       /\ Keeps(document_domains, document_domains')]_vars

\* the first run stored the edge c -authorized_by-> b and the link of c to dao-core;
\* the second run has synced proposals/c.md again with metadata that declares neither
\* and has retired b, and both the edge and the link are still there
C33_Witness ==
    /\ LoopsThrough(2)
    /\ <<"proposals", "/", "c", ".md">> \in DOMAIN runs[2].got
    /\ runs[2].got[<<"proposals", "/", "c", ".md">>] = "policy"
    /\ <<"policies", "/", "b", ".md">> \in runs[2].gone
    /\ \E row \in Rows(documents) : row.slug = <<"b">> /\ row.status = "retired"
    /\ \A n \in 1..Len(parseTable[PathC, "policy"].relationships) :
          parseTable[PathC, "policy"].relationships[n].type # "authorized_by"
    /\ \A n \in 1..Len(parseTable[PathC, "policy"].domains) :
          parseTable[PathC, "policy"].domains[n] # <<"dao", "-", "core">>
    /\ \E e \in Rows(document_relationships) :
          /\ e.from_id = <<"c">> /\ e.to_id = <<"b">>
          /\ e.relationship_type = "authorized_by"
    /\ [document_id |-> <<"c">>, domain_id |-> "dom-dao-core"] \in Rows(document_domains)

\* handler g has handled a correctly signed delivery with a delivery id and has itself
\* written the nonce of that id
RecordedNonce(g) ==
    /\ ~BadSignature(g)
    /\ handlers[g].deliveryId # NoHeader
    /\ \/ handlers[g].pc = "parse"
       \/ handlers[g].pc = "done" /\ handlers[g].response.outcome # "duplicate"

\* C34: the nonce of a correctly signed delivery is recorded before its payload is
\* parsed, filtered or dispatched; once a delivery with id D has recorded its nonce, no
\* other delivery with id D within 24 hours submits a run, whatever became of the first
\* one; and a delivery without a delivery id records no nonce and is never answered
\* 'duplicate'
C34_NonceBeforeParse ==
    /\ [][\A h \in HandlerIds :
            (/\ handlers'[h].pc = "parse" /\ handlers[h].pc # "parse"
             /\ handlers[h].deliveryId # NoHeader)
               => /\ handlers[h].pc = "put"
                  /\ instances' = instances
                  /\ KvLive(syncState', NonceKey(handlers[h].deliveryId), hookClock')]_vars
    /\ [][\A h \in HandlerIds :
            (handlers[h].pc = "parse" /\ handlers'[h].pc = "done"
             /\ instances' # instances)
               => ~\E g \in HandlerIds \ {h} :
                      /\ RecordedNonce(g)
                      /\ handlers[g].deliveryId = handlers[h].deliveryId
                      /\ WithinDay(handlers[g].at, handlers[h].at)]_vars
    /\ [][\A h \in HandlerIds :
            (/\ handlers[h].pc # "idle" /\ handlers[h].deliveryId = NoHeader
             /\ handlers'[h] # handlers[h])
               => /\ syncState' = syncState
                  /\ handlers'[h].pc \notin {"get", "put"}
                  /\ handlers'[h].response.outcome # "duplicate"]_vars

\* no step callback of any run is in progress or waiting for its retry
NoStepInProgress ==
    \A r \in RunIds : runs[r].pc \in {"idle", "loop", "complete", "errored"}

\* C35: whenever no pipeline step is in progress, every row of documents whose status is
\* not retired has a mirror object under its r2_key
C35_LiveRowsMirrored ==
    NoStepInProgress =>
        \A row \in Rows(documents) :
            row.status # "retired" => row.r2_key \in DOMAIN mirror

\* run r is in the sync step of a file for which the parser returns null
SyncsUnindexed(r) ==
    /\ runs[r].pc \in {"step", "failed"}
    /\ runs[r].sub \in {"put", "upsert"}
    /\ Parsed(r).kind = "null"

\* C37: the sync step of every fetched path first stores the raw content under
\* governance/<path>, whatever the parser makes of it, so that when the loops of a run
\* are through every fetched path is mirrored with its content; and a step whose file
\* the parser does not index ends without an error and leaves documents, domain links,
\* edges and scope entries as they were
C37_UnindexedStillMirrored ==
    /\ [][\A r \in RunIds :
            (runs[r].pc = "step" /\ runs[r].sub = "put" /\ runs'[r].sub = "upsert")
               => /\ R2Key(runs[r].cur) \in DOMAIN mirror'
                  /\ mirror'[R2Key(runs[r].cur)] =
                        [content |-> runs[r].content, commitSha |-> runs[r].commitSha]]_vars
    /\ [](\A r \in RunIds :
             LoopsThrough(r) =>
                \A path \in DOMAIN runs[r].got :
                    /\ R2Key(path) \in DOMAIN mirror
                    /\ mirror[R2Key(path)].content = runs[r].got[path])
    /\ [][\A r \in RunIds :
            (SyncsUnindexed(r) /\ runs'[r] # runs[r])
               => /\ UNCHANGED dbVars
                  /\ (runs[r].pc = "step" /\ runs[r].sub = "upsert"
                      /\ runs'[r].err # "fault")
                        => (runs'[r].pc = "loop" /\ runs'[r].err = "none")]_vars

\* the first run has fetched docs/README.md (with a metadata block) and docs/notes.md
\* (without one) and is through its loops: both objects are stored, no table has a row
C37_Witness ==
    /\ LoopsThrough(1)
    /\ DOMAIN runs[1].got = {PathReadme, PathNotes}
    /\ runs[1].got[PathNotes] = "plaintext"
    /\ parseTable[PathReadme, runs[1].got[PathReadme]].kind = "null"
    /\ parseTable[PathNotes, "plaintext"].kind = "null"
    /\ mirror[R2Key(PathNotes)].content = "plaintext"
    /\ R2Key(PathReadme) \in DOMAIN mirror
    /\ documents = EmptyBag /\ document_domains = EmptyBag
    /\ document_relationships = EmptyBag

\* C38: no step of the pipeline writes a scope entry: document_scope is empty in every
\* state, also after the sync of a document whose parsed record has scope entries
C38_NoScopeEntryWritten == document_scope = EmptyBag

\* policies/b.md, whose metadata declares the scope [0xabc, 26, ops], has been synced
\* through: the parsed record has an address, a hat and a group entry, row b is stored
C38_Witness ==
    \E r \in RunIds :
        /\ LoopsThrough(r)
        /\ PathB \in DOMAIN runs[r].got
        /\ Len(parseTable[PathB, runs[r].got[PathB]].scope) = 3
        /\ {parseTable[PathB, runs[r].got[PathB]].scope[n].entityType : n \in 1..3} =
              {"address", "hat", "group"}
        /\ \E row \in Rows(documents) : row.slug = <<"b">> /\ row.status # "retired"
        /\ document_scope = EmptyBag

\* the groups of the corpus that fetchGroups matches with id: by id, or by name
\* without regard to case
InCorpus(id) ==
    {g \in FetchFromGitHub(corpus) : g.id = id \/ ToLowerCase(g.name) = ToLowerCase(id)}

\* C36: a refresh of sb:groups does not change which groups can be looked up: a call
\* of fetchGroups with an id returns a group exactly when the corpus has a group of
\* that id or name, active or not, before and after a refresh
C36_RefreshKeepsLookups ==
    groupRead.id # NoId =>
        /\ groupRead.result # {} <=> InCorpus(groupRead.id) # {}
        /\ groupRead.result \subseteq InCorpus(groupRead.id)
=============================================================================
